---- MODULE Spec2Model ----
(***************************************************************************)
(* Model of the import-sort rule (src/src/rules/import-sort.ts).           *)
(*                                                                         *)
(* Source text is a sequence of tokens; a token is a record                *)
(*   [k, v, n, tail] : k the kind, v its characters (a sequence of         *)
(*   one-character strings), n a number (width of a run of spaces, or 1    *)
(*   for an inline `type` specifier), tail the tokens a line comment has   *)
(*   swallowed up to the end of its line.                                  *)
(* The rule reads the parsed block, sorts, and emits one report whose fix  *)
(* replaces the block's text; the host applies the fix and lints again.    *)
(***************************************************************************)
EXTENDS Integers, Sequences, FiniteSets, Bags, TLC

VARIABLES text, options, pass, phase, report, history

vars == <<text, options, pass, phase, report, history>>

\* ------------------------------------------------------------------ bounds
MaxEntries == 3
MaxPasses == 2
MaxInnerEntries == 2
MaxListItems == 3
MaxNestedItems == 2
MaxLinks == 4

\* ------------------------------------------------------------ characters
\* UTF-16 code units of the characters the model uses (String comparison
\* with < and > in compareStrings compares code units).
CharCode ==
  [c \in {".", "/", ":", "@", "A", "B", "X", "a", "b", "c", "d", "f", "n", "o", "s", "t", "x"} |->
     CASE c = "." -> 46 [] c = "/" -> 47 [] c = ":" -> 58 [] c = "@" -> 64
       [] c = "A" -> 65 [] c = "B" -> 66 [] c = "X" -> 88
       [] c = "a" -> 97 [] c = "b" -> 98 [] c = "c" -> 99 [] c = "d" -> 100
       [] c = "f" -> 102 [] c = "n" -> 110 [] c = "o" -> 111 [] c = "s" -> 115
       [] c = "t" -> 116 [] c = "x" -> 120]

toLowerCase(s) ==
  [i \in 1..Len(s) |->
     CASE s[i] = "A" -> "a" [] s[i] = "B" -> "b" [] s[i] = "X" -> "x" [] OTHER -> s[i]]

RECURSIVE StrLess(_, _)
StrLess(a, b) ==
  IF b = <<>> THEN FALSE
  ELSE IF a = <<>> THEN TRUE
  ELSE IF CharCode[Head(a)] < CharCode[Head(b)] THEN TRUE
  ELSE IF CharCode[Head(a)] > CharCode[Head(b)] THEN FALSE
  ELSE StrLess(Tail(a), Tail(b))

compareStrings(a, b, caseSensitive) ==
  LET left == IF caseSensitive THEN a ELSE toLowerCase(a)
      right == IF caseSensitive THEN b ELSE toLowerCase(b)
  IN IF StrLess(left, right) THEN -1 ELSE IF StrLess(right, left) THEN 1 ELSE 0

startsWith(s, p) == Len(p) <= Len(s) /\ SubSeq(s, 1, Len(p)) = p

StrContains(s, p) == \E i \in 0..(Len(s) - Len(p)) : SubSeq(s, i + 1, i + Len(p)) = p

\* value.split('/')[0]
RECURSIVE SplitHead(_)
SplitHead(s) ==
  IF s = <<>> \/ Head(s) = "/" THEN <<>> ELSE <<Head(s)>> \o SplitHead(Tail(s))

\* ---------------------------------------------------------------- tokens
Tok(k, v, n) == [k |-> k, v |-> v, n |-> n, tail |-> <<>>]
TImport == Tok("import", <<>>, 0)
TType == Tok("type", <<>>, 0)
TFrom == Tok("from", <<>>, 0)
TComma == Tok("comma", <<>>, 0)
TLBrace == Tok("lbrace", <<>>, 0)
TRBrace == Tok("rbrace", <<>>, 0)
TNl == Tok("nl", <<>>, 0)
TSp(n) == Tok("sp", <<>>, n)
TId(v) == Tok("id", v, 0)
TNs(v) == Tok("ns", v, 0)
TSrc(v) == Tok("src", v, 0)
\* A source string with the `;` that ends the declaration.
TSrcSemi(v) == Tok("src", v, 1)
TSpec(v) == Tok("spec", v, 0)
TTypeSpec(v) == Tok("spec", v, 1)
TLine(v) == Tok("line", v, 0)
TBlock(v) == Tok("block", v, 0)

IsWs(t) == t.k \in {"sp", "nl"}
IsComment(t) == t.k \in {"line", "block"}
AllWs(s) == \A i \in 1..Len(s) : IsWs(s[i])
HasNl(s) == \E i \in 1..Len(s) : s[i].k = "nl"

RECURSIVE TextLen(_)
TokLen(t) ==
  CASE t.k = "import" -> 6
    [] t.k = "type" -> 4
    [] t.k = "from" -> 4
    [] t.k \in {"comma", "lbrace", "rbrace", "nl"} -> 1
    [] t.k = "sp" -> t.n
    [] t.k = "id" -> Len(t.v)
    [] t.k = "ns" -> 5 + Len(t.v)
    [] t.k = "src" -> 2 + Len(t.v) + t.n
    [] t.k = "spec" -> Len(t.v) + (IF t.n = 1 THEN 5 ELSE 0)
    [] t.k = "block" -> 4 + Len(t.v)
    [] t.k = "line" -> 2 + Len(t.v) + TextLen(t.tail)
TextLen(s) == IF s = <<>> THEN 0 ELSE TokLen(Head(s)) + TextLen(Tail(s))

\* The non-whitespace content of a text, as a bag of tokens; what a line
\* comment swallowed is still content of the text.
RECURSIVE Content(_)
Content(s) ==
  IF s = <<>> THEN EmptyBag
  ELSE LET t == Head(s)
       IN (IF IsWs(t) THEN EmptyBag
           ELSE IF t.k = "line" THEN SetToBag({[t EXCEPT !.tail = <<>>]}) (+) Content(t.tail)
           ELSE SetToBag({t}))
          (+) Content(Tail(s))

\* Positions of the tokens of kind k in s, ascending.
RECURSIVE PositionsFrom(_, _, _)
PositionsFrom(s, k, i) ==
  IF i > Len(s) THEN <<>>
  ELSE (IF s[i].k = k THEN <<i>> ELSE <<>>) \o PositionsFrom(s, k, i + 1)
Positions(s, k) == PositionsFrom(s, k, 1)

RECURSIVE Flatten(_)
Flatten(ss) == IF ss = <<>> THEN <<>> ELSE Head(ss) \o Flatten(Tail(ss))

\* ------------------------------------------------------ the host's parser
\* A line comment runs to the end of its line: whatever follows it before
\* the next line break is part of the comment.
RECURSIVE LexFrom(_, _)
LexFrom(raw, acc) ==
  IF raw = <<>> THEN acc
  ELSE LET t == Head(raw)
           last == IF acc = <<>> THEN TNl ELSE acc[Len(acc)]
       IN IF last.k = "line" /\ t.k # "nl"
          THEN LexFrom(Tail(raw), [acc EXCEPT ![Len(acc)].tail = @ \o <<t>>])
          ELSE LexFrom(Tail(raw), Append(acc, t))
Lex(raw) == LexFrom(raw, <<>>)

\* The tokens of s that are neither whitespace nor comments.
RECURSIVE CodeTokens(_)
CodeTokens(s) ==
  IF s = <<>> THEN <<>>
  ELSE (IF IsWs(Head(s)) \/ IsComment(Head(s)) THEN <<>> ELSE <<Head(s)>>) \o CodeTokens(Tail(s))

\* A brace list is `spec (, spec)* ,?` or empty.
InnerOk(inner) ==
  LET c == CodeTokens(inner)
  IN /\ \A i \in 1..Len(c) : c[i].k = (IF i % 2 = 1 THEN "spec" ELSE "comma")
     /\ \A i \in 1..Len(c) : c[i].k \in {"spec", "comma"}

FirstPos(s, k) == LET ps == Positions(s, k) IN IF ps = <<>> THEN 0 ELSE ps[1]

\* One ImportDeclaration node, from its tokens (`import` ... source).
ParseNode(toks, leading, index) ==
  LET lb == FirstPos(toks, "lbrace")
      rb == FirstPos(toks, "rbrace")
      inner == IF lb > 0 /\ rb > lb THEN SubSeq(toks, lb + 1, rb - 1) ELSE <<>>
      ids == Positions(toks, "id")
      nss == Positions(toks, "ns")
      named == Positions(inner, "spec")
      specifiers ==
        [i \in 1..Len(ids) |-> [type |-> "ImportDefaultSpecifier", pos |-> ids[i], importKind |-> "value"]]
        \o [i \in 1..Len(nss) |-> [type |-> "ImportNamespaceSpecifier", pos |-> nss[i], importKind |-> "value"]]
        \o [i \in 1..Len(named) |->
              [type |-> "ImportSpecifier", pos |-> named[i],
               importKind |-> IF inner[named[i]].n = 1 THEN "type" ELSE "value"]]
  IN [index |-> index,
      toks |-> toks,
      leading |-> leading,
      importKind |-> IF Positions(toks, "type") # <<>> THEN "type" ELSE "value",
      specifiers |-> specifiers,
      lb |-> lb,
      rb |-> rb,
      inner |-> inner,
      source |-> toks[Len(toks)].v,
      ok |-> /\ (lb > 0) = (rb > 0)
             /\ lb <= rb
             /\ InnerOk(inner)
             /\ (specifiers # <<>> \/ lb > 0) = (Positions(toks, "from") # <<>>)]

\* The Program node of a lexed text: its import declarations in order.
Parse(txt) ==
  LET imports == Positions(txt, "import")
      srcs == Positions(txt, "src")
      shape == /\ Len(imports) = Len(srcs)
               /\ \A i \in 1..Len(imports) : imports[i] < srcs[i]
               /\ \A i \in 1..(Len(imports) - 1) : srcs[i] < imports[i + 1]
      nodes == IF ~shape THEN <<>>
               ELSE [i \in 1..Len(imports) |->
                       ParseNode(SubSeq(txt, imports[i], srcs[i]),
                                 IF i = 1 THEN <<>> ELSE SubSeq(txt, srcs[i - 1] + 1, imports[i] - 1),
                                 i)]
  IN [ok |-> shape /\ \A i \in 1..Len(nodes) : nodes[i].ok,
      nodes |-> nodes,
      blockStart |-> IF imports = <<>> THEN 1 ELSE imports[1],
      blockEnd |-> IF srcs = <<>> THEN 0 ELSE srcs[Len(srcs)]]

\* program.body of the model's files holds import declarations only.
collectTopImportDeclarations(program) == program.nodes

\* ------------------------------------------------- Array.prototype.sort
\* The engine's sort of an array of n elements under a comparator given as
\* the matrix c[i][j] (the comparator's result on elements i and j); the
\* result is the sequence of element indices in sorted order.  For arrays
\* shorter than 64 the engine counts the initial run (reversing a strictly
\* descending one) and inserts the rest by binary insertion.
RECURSIVE RunLength(_, _, _, _, _)
RunLength(c, n, desc, idx, len) ==
  IF idx > n THEN len
  ELSE LET order == c[idx][idx - 1]
       IN IF (desc /\ order >= 0) \/ (~desc /\ order < 0) THEN len
          ELSE RunLength(c, n, desc, idx + 1, len + 1)

RECURSIVE BinarySearch(_, _, _, _, _)
BinarySearch(c, a, pivot, left, right) ==
  IF left >= right THEN left
  ELSE LET mid == left + ((right - left) \div 2)
       IN IF c[pivot][a[mid + 1]] < 0
          THEN BinarySearch(c, a, pivot, left, mid)
          ELSE BinarySearch(c, a, pivot, mid + 1, right)

RECURSIVE BinaryInsertionSort(_, _, _)
BinaryInsertionSort(c, a, start) ==
  IF start >= Len(a) THEN a
  ELSE LET pivot == a[start + 1]
           left == BinarySearch(c, a, pivot, 0, start)
           moved == SubSeq(a, 1, left) \o <<pivot>> \o SubSeq(a, left + 1, start)
                    \o SubSeq(a, start + 2, Len(a))
       IN BinaryInsertionSort(c, moved, start + 1)

Reverse(s) == [i \in 1..Len(s) |-> s[Len(s) + 1 - i]]

ArraySort(c, n) ==
  LET id == [i \in 1..n |-> i]
  IN IF n < 2 THEN id
     ELSE LET desc == c[2][1] < 0
              run == RunLength(c, n, desc, 3, 2)
              a == IF desc THEN Reverse(SubSeq(id, 1, run)) \o SubSeq(id, run + 1, n) ELSE id
          IN BinaryInsertionSort(c, a, run)

\* ------------------------------------------------------------ small helpers
RECURSIVE SetToSeq(_)
SetToSeq(S) ==
  IF S = {} THEN <<>>
  ELSE LET m == CHOOSE x \in S : \A y \in S : x <= y
       IN <<m>> \o SetToSeq(S \ {m})

RECURSIVE StripLeadingWs(_)
StripLeadingWs(s) == IF s # <<>> /\ IsWs(Head(s)) THEN StripLeadingWs(Tail(s)) ELSE s

RECURSIVE StripTrailingWs(_)
StripTrailingWs(s) ==
  IF s # <<>> /\ IsWs(s[Len(s)]) THEN StripTrailingWs(SubSeq(s, 1, Len(s) - 1)) ELSE s

LeadingWs(s) == SubSeq(s, 1, Len(s) - Len(StripLeadingWs(s)))
TrailingWs(s) == SubSeq(s, Len(StripTrailingWs(s)) + 1, Len(s))

RECURSIVE JoinWith(_, _)
JoinWith(ss, sep) ==
  IF ss = <<>> THEN <<>>
  ELSE IF Len(ss) = 1 THEN ss[1]
  ELSE ss[1] \o sep \o JoinWith(Tail(ss), sep)

Spaces(n) == IF n = 0 THEN <<>> ELSE <<TSp(n)>>

\* ------------------------------------------------ classification of a node
normalizeSortOption(option) ==
  [enableLength |-> option.enableLength,
   enableAlphabet |-> option.enableAlphabet,
   caseSensitive |-> option.caseSensitive]

isSideEffectImport(node) == node.specifiers = <<>>

getImportCategory(node) ==
  IF isSideEffectImport(node) THEN "side-effect"
  ELSE IF \E i \in 1..Len(node.specifiers) : node.specifiers[i].type = "ImportSpecifier" THEN "named"
  ELSE IF \E i \in 1..Len(node.specifiers) : node.specifiers[i].type = "ImportDefaultSpecifier" THEN "default"
  ELSE "namespace"

isTypeOnlyImport(node) ==
  IF node.importKind = "type" THEN TRUE
  ELSE IF node.importKind = "value" THEN FALSE
  ELSE IF node.specifiers = <<>> THEN FALSE
  ELSE \A i \in 1..Len(node.specifiers) :
         node.specifiers[i].type = "ImportSpecifier" /\ node.specifiers[i].importKind = "type"

\* builtinModules of node:module, as far as the model's sources go.
builtinModules == {<<"f", "s">>, <<"o", "s">>}

\* new RegExp(pattern).test(value) for the patterns of the model: a literal,
\* anchored at the start (^lit) or not.
RegExpTest(regex, value) ==
  IF regex.anchored THEN startsWith(value, regex.lit) ELSE StrContains(value, regex.lit)

\* new RegExp throws on a malformed pattern; the entry is then skipped.
createPathGroupMatchers(groups) ==
  LET valid == {i \in 1..Len(groups) : groups[i].pattern.valid}
      order == SetToSeq(valid)
  IN [i \in 1..Len(order) |-> [regex |-> groups[order[i]].pattern, group |-> groups[order[i]].group]]

RECURSIVE FirstMatch(_, _, _)
FirstMatch(matchers, value, i) ==
  IF i > Len(matchers) THEN 0
  ELSE IF RegExpTest(matchers[i].regex, value) THEN i
  ELSE FirstMatch(matchers, value, i + 1)

classifyPathCategory(node, value, matchers) ==
  IF node.specifiers = <<>> THEN "side-effect"
  ELSE IF value = <<>> THEN "unknown"
  ELSE IF FirstMatch(matchers, value, 1) # 0 THEN matchers[FirstMatch(matchers, value, 1)].group
  ELSE IF value = <<".">> \/ value = <<".", "/">> THEN "index"
  ELSE IF startsWith(value, <<".", ".", "/">>) \/ value = <<".", ".">> THEN "parent"
  ELSE IF startsWith(value, <<".", "/">>) THEN "sibling"
  ELSE IF startsWith(value, <<"/">>) THEN "absolute"
  ELSE IF startsWith(value, <<"n", "o", "d", "e", ":">>) THEN "builtin"
  ELSE IF value \in builtinModules \/ SplitHead(value) \in builtinModules THEN "builtin"
  ELSE "external"

getImportSourceValue(node) == node.source

getImportAlphaKey(node) == node.source

\* From the start of `import` to the end of the token before the source.
getImportLengthScore(node) ==
  LET toks == node.toks
      before == {i \in 1..(Len(toks) - 1) : ~IsWs(toks[i]) /\ ~IsComment(toks[i])}
      tokenBeforeSource == CHOOSE i \in before : \A j \in before : j <= i
  IN TextLen(SubSeq(toks, 1, tokenBeforeSource))

\* ------------------------------------------------------------- inner pass
getSpecifierLength(spec) == Len(spec.v) + (IF spec.n = 1 THEN 4 ELSE 0)

getSpecifierName(spec) == spec.v

compareSpecifiers(inner, specifiers, i, j, config) ==
  LET a == inner[specifiers[i]]
      b == inner[specifiers[j]]
      byLength == getSpecifierLength(a) - getSpecifierLength(b)
      byName == compareStrings(getSpecifierName(a), getSpecifierName(b), config.caseSensitive)
  IN IF config.enableLength /\ byLength # 0 THEN byLength
     ELSE IF config.enableAlphabet /\ byName # 0 THEN byName
     ELSE i - j

\* The named specifiers (positions in the brace content) in sorted order.
sortImportSpecifiers(inner, specifiers, config) ==
  LET n == Len(specifiers)
      c == [i \in 1..n |-> [j \in 1..n |-> compareSpecifiers(inner, specifiers, i, j, config)]]
      order == ArraySort(c, n)
  IN [i \in 1..n |-> specifiers[order[i]]]

\* The position of the code token next after p (Len + 1: the closing brace).
getTokenAfter(inner, p) ==
  LET later == {q \in (p + 1)..Len(inner) : ~IsWs(inner[q]) /\ ~IsComment(inner[q])}
  IN IF later = {} THEN Len(inner) + 1 ELSE CHOOSE q \in later : \A r \in later : q <= r

\* The position of the code token or comment next after p.
getTokenOrCommentAfter(inner, p) ==
  LET later == {q \in (p + 1)..Len(inner) : ~IsWs(inner[q])}
  IN IF later = {} THEN Len(inner) + 1 ELSE CHOOSE q \in later : \A r \in later : q <= r

getCommentsBefore(inner, p) ==
  SetToSeq({q \in 1..(p - 1) :
              /\ IsComment(inner[q])
              /\ \A r \in (q + 1)..(p - 1) : IsWs(inner[r]) \/ IsComment(inner[r])})

getCommentsAfter(inner, p) ==
  SetToSeq({q \in (p + 1)..Len(inner) :
              /\ IsComment(inner[q])
              /\ \A r \in (p + 1)..(q - 1) : IsWs(inner[r]) \/ IsComment(inner[r])})

\* Something other than whitespace precedes the comment on its line (the
\* first line of the brace content follows `import {`).
isTrailingComment(inner, q) ==
  LET nls == {r \in 1..(q - 1) : inner[r].k = "nl"}
      lineStart == IF nls = {} THEN 0 ELSE CHOOSE r \in nls : \A x \in nls : x <= r
  IN lineStart = 0 \/ \E r \in (lineStart + 1)..(q - 1) : ~IsWs(inner[r])

\* 0 when there is none.
findTrailingComment(inner, p) ==
  LET nextToken == getTokenAfter(inner, p)
      isComma == nextToken <= Len(inner) /\ inner[nextToken].k = "comma"
      tokenToCheck == IF isComma THEN getTokenOrCommentAfter(inner, nextToken)
                      ELSE getTokenOrCommentAfter(inner, p)
  IN IF /\ tokenToCheck <= Len(inner)
        /\ IsComment(inner[tokenToCheck])
        /\ \A r \in (p + 1)..(tokenToCheck - 1) : inner[r].k # "nl"
     THEN tokenToCheck
     ELSE 0

getSpecifierTextWithComments(inner, p) ==
  LET allBefore == getCommentsBefore(inner, p)
      beforeComments == SetToSeq({allBefore[i] : i \in {j \in 1..Len(allBefore) : ~isTrailingComment(inner, allBefore[j])}})
      after0 == getCommentsAfter(inner, p)
      extraTrailing == findTrailingComment(inner, p)
      afterComments == IF extraTrailing # 0 /\ \A i \in 1..Len(after0) : after0[i] # extraTrailing
                       THEN Append(after0, extraTrailing) ELSE after0
      before == JoinWith([i \in 1..Len(beforeComments) |-> <<inner[beforeComments[i]]>>], <<TSp(1)>>)
      after == JoinWith([i \in 1..Len(afterComments) |-> <<inner[afterComments[i]]>>], <<TSp(1)>>)
  IN (IF before # <<>> THEN before \o <<TSp(1)>> ELSE <<>>)
     \o <<inner[p]>>
     \o (IF after # <<>> THEN <<TSp(1)>> \o after ELSE <<>>)

\* Does the text end with ','?  (The text of a line comment is its marker,
\* its characters and what it swallowed.)
RECURSIVE EndsWithComma(_)
EndsWithComma(s) ==
  IF s = <<>> THEN FALSE
  ELSE LET last == s[Len(s)]
       IN IF last.k = "comma" THEN TRUE
          ELSE IF last.k = "line" THEN EndsWithComma(last.tail)
          ELSE FALSE

\* The width of the run of spaces that starts at position q.
RECURSIVE SpacesAt(_, _)
SpacesAt(s, q) ==
  IF q <= Len(s) /\ s[q].k = "sp" THEN s[q].n + SpacesAt(s, q + 1) ELSE 0

RECURSIVE SkipSpaces(_, _)
SkipSpaces(s, q) == IF q <= Len(s) /\ s[q].k = "sp" THEN SkipSpaces(s, q + 1) ELSE q

\* One line of a multi-line brace list: the comma goes before a line comment.
SpecifierLine(specText, shouldAddComma) ==
  LET lines == Positions(specText, "line")
      code == StripTrailingWs(SubSeq(specText, 1, lines[1] - 1))
  IN IF ~shouldAddComma THEN specText
     ELSE IF lines # <<>>
     THEN code \o <<TComma>> \o SubSeq(specText, Len(code) + 1, Len(specText))
     ELSE specText \o <<TComma>>

buildSpecifierBlock(existingInner, sorted) ==
  LET specTexts == [i \in 1..Len(sorted) |-> getSpecifierTextWithComments(existingInner, sorted[i])]
      hasLineBreak == HasNl(existingInner)
      trimmed == StripTrailingWs(existingInner)
      hasTrailingComma == EndsWithComma(trimmed)
      leading == LeadingWs(existingInner)
      trailing == TrailingWs(existingInner)
      body == JoinWith(specTexts, <<TComma, TSp(1)>>)
      indentAt == {q \in 1..Len(existingInner) :
                     /\ existingInner[q].k = "nl"
                     /\ SkipSpaces(existingInner, q + 1) <= Len(existingInner)
                     /\ ~IsWs(existingInner[SkipSpaces(existingInner, q + 1)])}
      indentMatch == CHOOSE q \in indentAt : \A r \in indentAt : q <= r
      indent == IF indentAt # {} THEN Spaces(SpacesAt(existingInner, indentMatch + 1)) ELSE <<TSp(2)>>
      closingAt == {q \in 1..Len(existingInner) :
                      existingInner[q].k = "nl" /\ SkipSpaces(existingInner, q + 1) > Len(existingInner)}
      closingMatch == CHOOSE q \in closingAt : \A r \in closingAt : q <= r
      closingIndent == IF closingAt # {} THEN Spaces(SpacesAt(existingInner, closingMatch + 1)) ELSE <<>>
      lines == [i \in 1..Len(specTexts) |->
                  indent \o SpecifierLine(specTexts[i], i # Len(specTexts) \/ hasTrailingComma)]
  IN IF specTexts = <<>> THEN existingInner
     ELSE IF ~hasLineBreak
     THEN leading \o body \o (IF hasTrailingComma THEN <<TComma>> ELSE <<>>) \o trailing
     ELSE <<TNl>> \o JoinWith(lines, <<TNl>>) \o <<TNl>> \o closingIndent

rewriteNamedSpecifiers(node, sorted) ==
  LET before == SubSeq(node.toks, 1, node.lb)
      after == SubSeq(node.toks, node.rb, Len(node.toks))
      replacement == buildSpecifierBlock(node.inner, sorted)
  IN IF node.lb = 0 \/ node.rb = 0 THEN node.toks
     ELSE before \o replacement \o after

\* The tail of normalizeImportText, from `sorted` on.
normalizeSorted(node, namedSpecifiers, sorted) ==
  IF sorted = namedSpecifiers THEN [text |-> node.toks, changed |-> FALSE]
  ELSE [text |-> rewriteNamedSpecifiers(node, sorted), changed |-> TRUE]

normalizeNamed(node, namedSpecifiers, innerConfig) ==
  IF Len(namedSpecifiers) <= 1 THEN [text |-> node.toks, changed |-> FALSE]
  ELSE IF ~innerConfig.enableLength /\ ~innerConfig.enableAlphabet
  THEN [text |-> node.toks, changed |-> FALSE]
  ELSE normalizeSorted(node, namedSpecifiers,
                       sortImportSpecifiers(node.inner, namedSpecifiers, innerConfig))

normalizeImportText(node, innerConfig) ==
  normalizeNamed(node, Positions(node.inner, "spec"), innerConfig)

\* ------------------------------------------------------------- outer pass
\* One entry of buildEntries; normalized is normalizeImportText's result,
\* whose `changed` the entry carries along for hasInnerChange.
buildEntry(node, normalized, ignoreSideEffectImports, pathGroupMatchers) ==
  [node |-> node.index,
   text |-> normalized.text,
   changed |-> normalized.changed,
   leadingText |-> node.leading,
   lengthScore |-> getImportLengthScore(node),
   alphaKey |-> getImportAlphaKey(node),
   originalIndex |-> node.index,
   isSortable |-> ~(ignoreSideEffectImports /\ isSideEffectImport(node)),
   category |-> getImportCategory(node),
   isTypeOnly |-> isTypeOnlyImport(node),
   sourceValue |-> getImportSourceValue(node),
   pathCategory |-> classifyPathCategory(node, getImportSourceValue(node), pathGroupMatchers)]

withInnerChange(entries) ==
  [entries |-> entries, hasInnerChange |-> \E i \in 1..Len(entries) : entries[i].changed]

buildEntries(nodes, innerConfig, ignoreSideEffectImports, pathGroupMatchers) ==
  withInnerChange([i \in 1..Len(nodes) |->
                     buildEntry(nodes[i], normalizeImportText(nodes[i], innerConfig),
                                ignoreSideEffectImports, pathGroupMatchers)])

\* getTypePriority that never separates type-only imports from the others.
getTypePriorityNone(entryA, entryB, handling) == 0

\* getTypePriority that puts type-only imports first under every policy.
getTypePriorityAlways(entryA, entryB, handling) ==
  IF entryA.isTypeOnly = entryB.isTypeOnly THEN 0
  ELSE IF entryA.isTypeOnly THEN -1 ELSE 1

getTypePriority(entryA, entryB, handling) ==
  IF handling = "ignore" THEN 0
  ELSE IF entryA.isTypeOnly = entryB.isTypeOnly THEN 0
  ELSE IF /\ handling = "after"
          /\ entryA.pathCategory = entryB.pathCategory
          /\ entryA.pathCategory = "parent"
  THEN 0
  ELSE IF handling = "before" THEN (IF entryA.isTypeOnly THEN -1 ELSE 1)
  ELSE (IF entryA.isTypeOnly THEN 1 ELSE -1)

\* getPathPriority with the ranks of builtin and side-effect exchanged.
getPathPriorityExchanged(category) ==
  CASE category = "builtin" -> 6
    [] category = "absolute" -> 1
    [] category = "parent" -> 2
    [] category = "sibling" -> 3
    [] category = "index" -> 4
    [] category = "external" -> 5
    [] category = "side-effect" -> 0
    [] OTHER -> 7

getPathPriority(category) ==
  CASE category = "builtin" -> 0
    [] category = "absolute" -> 1
    [] category = "parent" -> 2
    [] category = "sibling" -> 3
    [] category = "index" -> 4
    [] category = "external" -> 5
    [] category = "side-effect" -> 6
    [] OTHER -> 7

getCategoryPriority(category) ==
  CASE category = "default" -> 0
    [] category = "named" -> 1
    [] category = "namespace" -> 2
    [] category = "side-effect" -> 3
    [] OTHER -> 4

isSpecialPathCategory(category) == category = "builtin" \/ category = "side-effect"

\* compareEntries with the final tie-break on the original index reversed.
compareEntriesReversedTie(a, b, config) ==
  LET byLength == a.lengthScore - b.lengthScore
      byAlpha == compareStrings(a.alphaKey, b.alphaKey, config.caseSensitive)
  IN IF config.enableLength /\ byLength # 0 THEN byLength
     ELSE IF config.enableAlphabet /\ byAlpha # 0 THEN byAlpha
     ELSE b.originalIndex - a.originalIndex

compareEntries(a, b, config) ==
  LET byLength == a.lengthScore - b.lengthScore
      byAlpha == compareStrings(a.alphaKey, b.alphaKey, config.caseSensitive)
  IN IF config.enableLength /\ byLength # 0 THEN byLength
     ELSE IF config.enableAlphabet /\ byAlpha # 0 THEN byAlpha
     ELSE a.originalIndex - b.originalIndex

\* shouldComparePath that ignores the enablePathSorting switch.
shouldComparePathSpecialOnly(a, b, enablePathSorting) ==
  \/ isSpecialPathCategory(a.pathCategory)
  \/ isSpecialPathCategory(b.pathCategory)

\* const shouldComparePath of compareSegmentEntries.
shouldComparePath(a, b, enablePathSorting) ==
  \/ enablePathSorting
  \/ isSpecialPathCategory(a.pathCategory)
  \/ isSpecialPathCategory(b.pathCategory)

\* The path priority of an entry as compareSegmentEntries adjusts it.
adjustedPathPriority(entry, typeHandling) ==
  getPathPriority(entry.pathCategory) - (IF typeHandling = "ignore" /\ entry.isTypeOnly THEN 100 ELSE 0)

compareSegmentEntries(a, b, config, typeHandling, enablePathSorting) ==
  LET typePriority == getTypePriority(a, b, typeHandling)
      pathPriority == adjustedPathPriority(a, typeHandling) - adjustedPathPriority(b, typeHandling)
      categoryPriority == getCategoryPriority(a.category) - getCategoryPriority(b.category)
  IN IF typePriority # 0 THEN typePriority
     ELSE IF shouldComparePath(a, b, enablePathSorting) /\ pathPriority # 0 THEN pathPriority
     ELSE IF categoryPriority # 0 THEN categoryPriority
     ELSE compareEntries(a, b, config)

effectiveHandling(segment, typeImportHandling) ==
  LET hasSideEffect == \E i \in 1..Len(segment) : segment[i].pathCategory = "side-effect"
  IN IF typeImportHandling = "after" /\ ~hasSideEffect THEN "ignore" ELSE typeImportHandling

sortSegment(segment, config, typeImportHandling, enablePathSorting) ==
  LET n == Len(segment)
      handling == effectiveHandling(segment, typeImportHandling)
      c == [i \in 1..n |-> [j \in 1..n |->
              compareSegmentEntries(segment[i], segment[j], config, handling, enablePathSorting)]]
      order == ArraySort(c, n)
  IN [i \in 1..n |-> segment[order[i]]]

areSameOrder(a, b) == Len(a) = Len(b) /\ \A i \in 1..Len(a) : a[i].node = b[i].node

\* A variant that finds the last difference.
findLastDifferenceIndex(original, sorted) ==
  LET diff == {i \in 1..Len(original) : original[i].node # sorted[i].node}
  IN IF diff = {} THEN -1 ELSE (CHOOSE i \in diff : \A j \in diff : i >= j) - 1

findFirstDifferenceIndex(original, sorted) ==
  LET diff == {i \in 1..Len(original) : original[i].node # sorted[i].node}
  IN IF diff = {} THEN -1 ELSE (CHOOSE i \in diff : \A j \in diff : i <= j) - 1

\* flush() of reorderEntries, from `sorted` on.
flushSorted(acc, sorted, diffIndex) ==
  [finalEntries |-> acc.finalEntries \o sorted,
   didReorder |-> acc.didReorder \/ ~areSameOrder(acc.buffer, sorted),
   mismatch |-> IF acc.mismatch = <<>> /\ diffIndex # -1
                THEN <<[expected |-> sorted[diffIndex + 1], actual |-> acc.buffer[diffIndex + 1]]>>
                ELSE acc.mismatch,
   buffer |-> <<>>]

flushDiff(acc, sorted) == flushSorted(acc, sorted, findFirstDifferenceIndex(acc.buffer, sorted))

\* flush() of reorderEntries: sort the buffered segment into the result.
flush(acc, config, typeImportHandling, enablePathSorting) ==
  IF acc.buffer = <<>> THEN acc
  ELSE flushDiff(acc, sortSegment(acc.buffer, config, typeImportHandling, enablePathSorting))

\* pushEntry with the unsortable entry put into the next segment's buffer.
pushEntryToBuffer(acc, entry) == [acc EXCEPT !.buffer = Append(@, entry)]

\* finalEntries.push(entry) for an entry that is not sortable.
pushEntry(acc, entry) == [acc EXCEPT !.finalEntries = Append(@, entry)]

\* The forEach of reorderEntries from entry i on, and the final flush().
RECURSIVE reorderFrom(_, _, _, _, _, _)
reorderFrom(entries, i, acc, config, typeImportHandling, enablePathSorting) ==
  IF i > Len(entries) \/ ~entries[i].isSortable
  THEN IF i > Len(entries)
       THEN flush(acc, config, typeImportHandling, enablePathSorting)
       ELSE reorderFrom(entries, i + 1,
                        pushEntry(flush(acc, config, typeImportHandling, enablePathSorting), entries[i]),
                        config, typeImportHandling, enablePathSorting)
  ELSE reorderFrom(entries, i + 1, [acc EXCEPT !.buffer = Append(@, entries[i])],
                   config, typeImportHandling, enablePathSorting)

reorderResult(r) == [finalEntries |-> r.finalEntries, didReorder |-> r.didReorder, mismatch |-> r.mismatch]

reorderEntries(entries, outerConfig, typeImportHandling, enablePathSorting) ==
  reorderResult(reorderFrom(entries, 1,
                            [finalEntries |-> <<>>, didReorder |-> FALSE, mismatch |-> <<>>, buffer |-> <<>>],
                            outerConfig, typeImportHandling, enablePathSorting))

\* eol is "\n" in the model's texts.
rebuildPrefix(entry, index) ==
  IF index = 1 THEN StripLeadingWs(entry.leadingText)
  ELSE IF AllWs(entry.leadingText)
  THEN (IF HasNl(entry.leadingText) THEN entry.leadingText ELSE <<TNl>>)
  ELSE entry.leadingText

rebuildBlock(entries) ==
  Flatten([i \in 1..Len(entries) |-> rebuildPrefix(entries[i], i) \o entries[i].text])

getImportPathLabel(entry) ==
  IF entry.isTypeOnly /\ entry.pathCategory # "side-effect"
  THEN <<entry.pathCategory, "-type">> ELSE <<entry.pathCategory>>

Silent(entries, hasInnerChange, reordered) ==
  [reported |-> FALSE, messageId |-> "", data |-> <<>>, range |-> <<1, 0>>, replacement |-> <<>>,
   entries |-> entries, hasInnerChange |-> hasInnerChange,
   sorted |-> reordered # <<>>,
   didReorder |-> IF reordered = <<>> THEN FALSE ELSE reordered[1].didReorder,
   mismatch |-> IF reordered = <<>> THEN <<>> ELSE reordered[1].mismatch,
   finalEntries |-> IF reordered = <<>> THEN <<>> ELSE reordered[1].finalEntries]

\* context.report({...}) of Program: the report and its fix.
reportOf(program, built, reordered) ==
  [reported |-> TRUE,
   messageId |-> IF reordered.mismatch # <<>> THEN "importSortDetailed" ELSE "importSort",
   data |-> IF reordered.mismatch # <<>>
            THEN <<[expected |-> reordered.mismatch[1].expected.sourceValue,
                    expectedCategory |-> getImportPathLabel(reordered.mismatch[1].expected),
                    actual |-> reordered.mismatch[1].actual.sourceValue,
                    actualCategory |-> getImportPathLabel(reordered.mismatch[1].actual)]>>
            ELSE <<>>,
   range |-> <<program.blockStart, program.blockEnd>>,
   replacement |-> rebuildBlock(reordered.finalEntries),
   entries |-> built.entries,
   hasInnerChange |-> built.hasInnerChange,
   sorted |-> TRUE,
   didReorder |-> reordered.didReorder,
   mismatch |-> reordered.mismatch,
   finalEntries |-> reordered.finalEntries]

\* lintReordered that reports a changed declaration order only.
lintReorderedOnly(program, built, reordered) ==
  IF ~reordered.didReorder
  THEN Silent(built.entries, built.hasInnerChange, <<reordered>>)
  ELSE reportOf(program, built, reordered)

\* Program, from the result of reorderEntries on.
lintReordered(program, built, reordered) ==
  IF ~reordered.didReorder /\ ~built.hasInnerChange
  THEN Silent(built.entries, built.hasInnerChange, <<reordered>>)
  ELSE reportOf(program, built, reordered)

\* Program, from the result of buildEntries on.
lintBuilt(program, opts, built) ==
  IF Len(built.entries) <= 1 /\ ~built.hasInnerChange
  THEN Silent(built.entries, built.hasInnerChange, <<>>)
  ELSE lintReordered(program, built,
                     reorderEntries(built.entries, normalizeSortOption(opts.outer),
                                    opts.typeImportHandling, Len(opts.pathGroups) # 0))

\* What create(context).Program(program) does for a parsed file: the report
\* it emits (reported, messageId, data, the fix's range and replacement) and
\* the values it computed on the way (sorted: reorderEntries was called).
lint(program, opts) ==
  IF Len(collectTopImportDeclarations(program)) = 0 THEN Silent(<<>>, FALSE, <<>>)
  ELSE lintBuilt(program, opts,
                 buildEntries(collectTopImportDeclarations(program), normalizeSortOption(opts.inner),
                              opts.ignoreSideEffectImports, createPathGroupMatchers(opts.pathGroups)))

\* fixer.replaceTextRange([blockStart, blockEnd], replacement), then the host
\* lexes the new text.
replaceTextRange(txt, range, replacement) ==
  Lex(SubSeq(txt, 1, range[1] - 1) \o replacement \o SubSeq(txt, range[2] + 1, Len(txt)))

\* ------------------------------------------------------------------ inputs
Header(kind, def, ns) ==
  <<TImport>> \o (IF kind = "type" THEN <<TSp(1), TType>> ELSE <<>>)
  \o (IF def # <<>> THEN <<TSp(1), TId(def)>> ELSE <<>>)
  \o (IF ns # <<>> THEN (IF def # <<>> THEN <<TComma>> ELSE <<>>) \o <<TSp(1), TNs(ns)>> ELSE <<>>)

\* import [type] [def][, ][{ inner }] from 'src'
NamedImport(kind, def, inner, src) ==
  Header(kind, def, <<>>) \o (IF def # <<>> THEN <<TComma>> ELSE <<>>)
  \o <<TSp(1), TLBrace>> \o inner \o <<TRBrace, TSp(1), TFrom, TSp(1), TSrc(src)>>

PlainImport(kind, def, ns, src) == Header(kind, def, ns) \o <<TSp(1), TFrom, TSp(1), TSrc(src)>>

SideEffectImport(src) == <<TImport, TSp(1), TSrc(src)>>

One(name) == <<TSp(1), TSpec(name), TSp(1)>>

\* The declarations the blocks of Spec are made of.
DeclPool ==
  { PlainImport("value", <<"a">>, <<>>, <<"f", "s">>),
    PlainImport("value", <<"b", "b">>, <<>>, <<".", "/", "a">>),
    NamedImport("type", <<>>, One(<<"A">>), <<".", ".", "/", "b">>),
    NamedImport("value", <<>>, One(<<"c">>), <<".", ".", "/", "b">>),
    NamedImport("value", <<>>, One(<<"d">>), <<".", ".", "/", "a">>),
    PlainImport("value", <<>>, <<"n">>, <<"x">>),
    NamedImport("value", <<>>, One(<<"c", "c">>), <<"X">>),
    SideEffectImport(<<".", "/", "s">>) }

\* The blocks of 1..n declarations of pool, one declaration per line.
RECURSIVE BlocksOf(_, _)
BlocksOf(pool, n) ==
  IF n = 1 THEN pool
  ELSE LET shorter == BlocksOf(pool, n - 1)
       IN shorter \cup {b \o <<TNl>> \o d : b \in {x \in shorter : Len(Positions(x, "import")) = n - 1}, d \in pool}

Blocks(n) == BlocksOf(DeclPool, n)

\* Brace lists of the declarations of SpecInner: layouts on one line and on
\* several, with and without comments and a trailing comma.
InnerPool ==
  { <<TSpec(<<"b">>), TComma, TSpec(<<"a">>)>>,
    <<TSpec(<<"c">>), TComma, TSp(1), TSpec(<<"d">>)>>,
    <<TSp(1), TSpec(<<"b", "b">>), TComma, TSp(1), TSpec(<<"a">>), TComma, TSp(1)>>,
    <<TSp(1), TBlock(<<"c">>), TSp(1), TSpec(<<"b", "b">>), TComma, TSp(1), TSpec(<<"a">>), TSp(1)>>,
    <<TNl, TSp(2), TSpec(<<"b", "b">>), TComma, TSp(1), TLine(<<"x">>), TNl, TSp(2), TSpec(<<"a">>), TNl>>,
    <<TNl, TSp(2), TSpec(<<"b", "b">>), TComma, TNl, TSp(2), TSpec(<<"a">>), TComma, TNl>>,
    <<TNl, TSp(2), TSpec(<<"b", "b">>), TComma, TNl, TSp(2), TSpec(<<"a">>), TNl, TSp(2), TLine(<<"x">>), TNl>>,
    <<TNl, TSp(2), TLine(<<"x">>), TNl, TSp(2), TSpec(<<"b", "b">>), TComma, TNl, TSp(2), TSpec(<<"a">>), TNl>> }

InnerDeclPool == {NamedImport("value", <<>>, inner, src) : inner \in InnerPool, src \in {<<"x">>, <<"o">>}}

InnerBlocks(n) == BlocksOf(InnerDeclPool, n)

SortOptions ==
  { [enableLength |-> TRUE, enableAlphabet |-> TRUE, caseSensitive |-> TRUE],
    [enableLength |-> TRUE, enableAlphabet |-> TRUE, caseSensitive |-> FALSE],
    [enableLength |-> TRUE, enableAlphabet |-> FALSE, caseSensitive |-> TRUE],
    [enableLength |-> FALSE, enableAlphabet |-> FALSE, caseSensitive |-> TRUE] }

DefaultSortOption == [enableLength |-> TRUE, enableAlphabet |-> TRUE, caseSensitive |-> TRUE]

Pattern(anchored, lit) == [valid |-> TRUE, anchored |-> anchored, lit |-> lit]
BadPattern == [valid |-> FALSE, anchored |-> FALSE, lit |-> <<>>]

PathGroupSets ==
  { <<>>,
    <<[pattern |-> BadPattern, group |-> "builtin"]>>,
    <<[pattern |-> Pattern(TRUE, <<".", "/">>), group |-> "external"],
      [pattern |-> Pattern(FALSE, <<"/">>), group |-> "unknown"]>>,
    <<[pattern |-> BadPattern, group |-> "builtin"],
      [pattern |-> Pattern(TRUE, <<"X">>), group |-> "absolute"]>> }

OptionSets ==
  [outer : SortOptions, inner : {DefaultSortOption}, ignoreSideEffectImports : BOOLEAN,
   typeImportHandling : {"ignore", "before", "after"}, pathGroups : PathGroupSets]

InnerOptionSets ==
  [outer : {DefaultSortOption}, inner : SortOptions, ignoreSideEffectImports : {TRUE},
   typeImportHandling : {"before"}, pathGroups : {<<>>}]

\* ----------------------------------------------------------- state machine
NotRun == Silent(<<>>, FALSE, <<>>)

Init ==
  /\ text \in Blocks(MaxEntries)
  /\ options \in OptionSets
  /\ pass = 0
  /\ phase = "lint"
  /\ report = NotRun
  /\ history = <<>>

\* The host runs the rule's Program visitor on the parsed file.
Program ==
  /\ phase = "lint"
  /\ pass < MaxPasses
  /\ report' = lint(Parse(text), options)
  /\ pass' = pass + 1
  /\ phase' = IF report'.reported THEN "fix" ELSE "done"
  /\ UNCHANGED <<text, options, history>>

\* The host applies the report's fix; a text that no longer parses is not
\* linted again.
ApplyFix ==
  /\ phase = "fix"
  /\ text' = replaceTextRange(text, report.range, report.replacement)
  /\ history' = Append(history, text)
  /\ phase' = IF Parse(text').ok THEN "lint" ELSE "broken"
  /\ UNCHANGED <<options, pass, report>>

Next == Program \/ ApplyFix

Spec == Init /\ [][Next]_vars

\* The same machine on blocks whose declarations have several specifiers.
InitInner ==
  /\ text \in InnerBlocks(MaxInnerEntries)
  /\ options \in InnerOptionSets
  /\ pass = 0
  /\ phase = "lint"
  /\ report = NotRun
  /\ history = <<>>

SpecInner == InitInner /\ [][Next]_vars

\* -------------------------------------------------------------- properties
\* The latest report was produced by a run on a text that a fix produced.
RanAfterFix == history # <<>> /\ phase \in {"fix", "done"}

\* C1: import-sort is idempotent: once the rule has reported and its fix
\* has been applied, running it again on the resulting text with the same
\* options produces no report.
C1_Idempotent == RanAfterFix => ~report.reported

\* The text the pending fix replaces.
FixedRange == SubSeq(text, report.range[1], report.range[2])

\* C2: text fidelity: the replacement text of the fix has exactly the
\* non-whitespace content of the block range it replaces: every declaration,
\* specifier, separator and comment as many times as in the input.
C2_TextFidelity == phase = "fix" => Content(report.replacement) = Content(FixedRange)

\* The entries of the block the latest run read, and the order it gave them.
Original == report.entries
Final == report.finalEntries

\* Positions i <= j of es lie in one sortable segment: no entry from i to
\* j is excluded from sorting.
SameSegment(es, i, j) == \A k \in i..j : es[k].isSortable

InSegmentOf(es, i, k) == IF k <= i THEN SameSegment(es, k, i) ELSE SameSegment(es, i, k)

OuterConfig == normalizeSortOption(options.outer)

\* Equal length score and equal alphabetic key under the outer case option.
EqualKeys(a, b) ==
  /\ a.lengthScore = b.lengthScore
  /\ compareStrings(a.alphaKey, b.alphaKey, OuterConfig.caseSensitive) = 0

SameClass(a, b) ==
  /\ a.isTypeOnly = b.isTypeOnly
  /\ a.pathCategory = b.pathCategory
  /\ a.category = b.category

\* The segment of position i holds entries of one class only.
UniformSegment(es, i) == \A k \in 1..Len(es) : InSegmentOf(es, i, k) => SameClass(es[k], es[i])

IsBarrier(e) == e.category = "side-effect"

TypeFirst(es) ==
  \A i, j \in 1..Len(es) :
    (i < j /\ SameSegment(es, i, j)) => ~(~es[i].isTypeOnly /\ es[j].isTypeOnly)

\* No type-only entry precedes an entry of its segment that is not type-only.
TypeLast(es) ==
  \A i, j \in 1..Len(es) :
    (i < j /\ SameSegment(es, i, j)) => ~(es[i].isTypeOnly /\ ~es[j].isTypeOnly)

C6_TypeAfter == (report.sorted /\ options.typeImportHandling = "after") => TypeLast(Final)

\* The entries with no declaration marked type-only.
EraseType(es) == [i \in 1..Len(es) |-> [es[i] EXCEPT !.isTypeOnly = FALSE]]

NodesOf(es) == [i \in 1..Len(es) |-> es[i].node]

\* The order the outer pass gives the block once its type-only marks are
\* erased, every other sort key left as it is.
OrderWithoutType ==
  NodesOf(reorderEntries(EraseType(Original), OuterConfig, options.typeImportHandling,
                         Len(options.pathGroups) # 0).finalEntries)

NoPathComparison ==
  /\ Len(options.pathGroups) = 0
  /\ \A i \in 1..Len(Original) : Original[i].isSortable => ~isSpecialPathCategory(Original[i].pathCategory)

PathBefore(a, b) == getPathPriority(a.pathCategory) < getPathPriority(b.pathCategory)

C9_PathGroupsFirst ==
  \A i \in 1..Len(Original) :
    LET matchers == createPathGroupMatchers(options.pathGroups)
        first == FirstMatch(matchers, Original[i].sourceValue, 1)
    IN first # 0 => Original[i].pathCategory = matchers[first].group

\* The configuration without its entries whose pattern does not compile.
WithoutMalformed(groups) == SelectSeq(groups, LAMBDA g : g.pattern.valid)

\* What a run shows to the host: the report and its fix.
Shown(r) == <<r.reported, r.messageId, r.data, r.range, r.replacement>>

\* C10: the report and the fix of a run are those of the run with the
\* malformed pathGroups entries removed from the configuration.
C10_MalformedDropped ==
  phase \in {"fix", "done"} =>
    Shown(report) = Shown(lint(Parse(text), [options EXCEPT !.pathGroups = WithoutMalformed(@)]))

SegmentAt(es, i) ==
  LET in == {k \in 1..Len(es) : InSegmentOf(es, i, k)}
      lo == CHOOSE k \in in : \A m \in in : k <= m
      hi == CHOOSE k \in in : \A m \in in : m <= k
  IN SubSeq(es, lo, hi)

\* Neither the type-only policy in force in the segment of position i nor
\* the path comparison tells entries i and j of es apart.
NotSeparated(es, i, j) ==
  LET handling == effectiveHandling(SegmentAt(es, i), options.typeImportHandling)
  IN /\ getTypePriority(es[i], es[j], handling) = 0
     /\ \/ ~shouldComparePath(es[i], es[j], Len(options.pathGroups) # 0)
        \/ adjustedPathPriority(es[i], handling) = adjustedPathPriority(es[j], handling)

\* default < named < namespace < side-effect
CategoryRank(category) ==
  CASE category = "default" -> 1
    [] category = "named" -> 2
    [] category = "namespace" -> 3
    [] category = "side-effect" -> 4

\* C12: two entries of one segment that neither the type-only policy nor
\* the path comparison separates are in the order default, named,
\* namespace, side-effect of their declaration categories, whatever the
\* outer switches; with both switches off, entries of one category keep
\* their input order.
C12_CategoryKey ==
  report.sorted =>
    \A i, j \in 1..Len(Final) :
      (i < j /\ SameSegment(Final, i, j) /\ NotSeparated(Final, i, j)) =>
        /\ CategoryRank(Final[i].category) <= CategoryRank(Final[j].category)
        /\ (/\ ~OuterConfig.enableLength /\ ~OuterConfig.enableAlphabet
            /\ Final[i].category = Final[j].category)
             => Final[i].originalIndex < Final[j].originalIndex

\* The named specifiers (tokens) of a declaration text, in order.
NamedSpecifiers(toks) ==
  LET node == ParseNode(toks, <<>>, 1)
      named == Positions(node.inner, "spec")
  IN [i \in 1..Len(named) |-> node.inner[named[i]]]

\* The length of a specifier's text without whitespace.
StrippedLength(spec) == Len(spec.v) + (IF spec.n = 1 THEN 4 ELSE 0)

\* The position of specifier spec in the list specs (0: not there).
PositionIn(specs, spec) ==
  LET at == {i \in 1..Len(specs) : specs[i] = spec}
  IN IF at = {} THEN 0 ELSE CHOOSE i \in at : \A j \in at : i <= j

\* a may stand before b: not after it by length (if enabled), then by
\* name (if enabled), then by position in the original list.
InnerOrdered(a, b, original, config) ==
  LET nameA == IF config.caseSensitive THEN a.v ELSE toLowerCase(a.v)
      nameB == IF config.caseSensitive THEN b.v ELSE toLowerCase(b.v)
  IN IF config.enableLength /\ StrippedLength(a) # StrippedLength(b)
     THEN StrippedLength(a) < StrippedLength(b)
     ELSE IF config.enableAlphabet /\ nameA # nameB THEN StrLess(nameA, nameB)
     ELSE PositionIn(original, a) <= PositionIn(original, b)

\* The text the fix emits for entry i, as the host reads it again.
EmittedText(i) == Lex(Original[i].text)

\* C13: for every import with two or more named specifiers the emitted
\* brace list holds the same specifiers, ordered by length (if enabled),
\* then name (if enabled; lower-cased unless case sensitive), then
\* original position; with both switches off the text is unchanged and no
\* inner change is flagged.
C13_InnerOrder ==
  phase \in {"fix", "done"} =>
    \A i \in 1..Len(Original) :
      LET node == Parse(text).nodes[i]
          before == NamedSpecifiers(node.toks)
          after == NamedSpecifiers(EmittedText(i))
          config == normalizeSortOption(options.inner)
      IN Len(before) >= 2 =>
           IF ~config.enableLength /\ ~config.enableAlphabet
           THEN Original[i].text = node.toks /\ ~Original[i].changed
           ELSE /\ Len(after) = Len(before)
                /\ \A k \in 1..Len(before) : PositionIn(after, before[k]) # 0
                /\ \A k \in 1..(Len(after) - 1) : InnerOrdered(after[k], after[k + 1], before, config)

\* The final entry sequence differs from the original one.
OrderChanged == report.sorted /\ NodesOf(Final) # NodesOf(Original)

\* The named specifiers of some import are emitted in another order.
SpecifierOrderChanged ==
  \E i \in 1..Len(Original) :
    NamedSpecifiers(Original[i].text) # NamedSpecifiers(Parse(text).nodes[i].toks)

SortableCount == Cardinality({i \in 1..Len(Original) : Original[i].isSortable})

\* C14: the run reports if and only if the final entry sequence differs
\* from the original one or the named-specifier order of some import
\* changes; fewer than two sortable entries and no specifier change give
\* no report.
C14_ReportIffChange ==
  phase \in {"fix", "done"} =>
    /\ report.reported <=> (OrderChanged \/ SpecifierOrderChanged)
    /\ (SortableCount < 2 /\ ~SpecifierOrderChanged) => ~report.reported

\* A report for a changed specifier order alone.
C14_Witness ==
  /\ phase = "fix"
  /\ report.reported
  /\ SpecifierOrderChanged
  /\ ~OrderChanged
  /\ Len(Original) >= 2

\* =================================================================
\* consistent-list-newline (src/rules/consistent-list-newline.ts)
\* =================================================================
\* A file is one expression or one type: an element is a one-line atom or
\* a bracketed list of elements. The opening token carries the node type of
\* the list; a function type continues after its closing token with `=>`
\* and a return type, a function expression with its body. An offset is a
\* number of tokens: token i covers the offsets i - 1 to i.
TOpen(type) == Tok("open", <<type>>, 0)
TClose == Tok("close", <<>>, 0)
TArrow == Tok("arrow", <<>>, 0)
TBody == Tok("body", <<>>, 0)
TAtom(v) == Tok("atom", v, 0)
\* A member of a type literal whose text ends with `;`.
TMember(v) == Tok("atom", v, 1)

\* loc.start.line of token i (every token is on one line).
LineOf(s, i) == 1 + Cardinality({j \in 1..(i - 1) : s[j].k = "nl"})
\* sourceCode.getLocFromIndex(offset).line
getLocFromIndex(s, offset) == 1 + Cardinality({j \in 1..offset : s[j].k = "nl"})

\* The position of the code token before p, 0 when there is none.
getTokenBefore(s, p) ==
  LET earlier == {q \in 1..(p - 1) : ~IsWs(s[q]) /\ ~IsComment(s[q])}
  IN IF earlier = {} THEN 0 ELSE CHOOSE q \in earlier : \A r \in earlier : r <= q

\* The position of the closing token of the list whose content starts at
\* i, 0 when it is missing.
RECURSIVE MatchClose(_, _, _)
MatchClose(s, i, depth) ==
  IF i > Len(s) THEN 0
  ELSE IF s[i].k = "open" THEN MatchClose(s, i + 1, depth + 1)
  ELSE IF s[i].k = "close"
       THEN IF depth = 1 THEN i ELSE MatchClose(s, i + 1, depth - 1)
  ELSE MatchClose(s, i + 1, depth)

\* The position of the last token of the node opened at o, 0 when the node
\* does not parse: a function type runs to the end of its return type, a
\* function expression to its body.
RECURSIVE NodeLast(_, _)
NodeLast(s, o) ==
  LET c == MatchClose(s, o + 1, 1)
      a == getTokenAfter(s, c)
      r == getTokenAfter(s, a)
  IN IF c = 0 THEN 0
     ELSE IF s[o].v[1] = "TSFunctionType"
          THEN IF a > Len(s) \/ r > Len(s) THEN 0
               ELSE IF s[a].k # "arrow" THEN 0
               ELSE IF s[r].k = "atom" THEN r
               ELSE IF s[r].k = "open" THEN NodeLast(s, r)
               ELSE 0
     ELSE IF s[o].v[1] = "FunctionExpression"
          THEN IF a <= Len(s) /\ s[a].k = "body" THEN a ELSE 0
     ELSE c

\* The members of a type literal include the `,` that follows them.
MemberTypes == {"TSInterfaceDeclaration", "TSTypeLiteral"}

\* The children of the list opened at o and closed at c, from position i
\* on: each with the positions of its first and last token.
RECURSIVE ItemsFrom(_, _, _, _)
ItemsFrom(s, type, i, c) ==
  IF i >= c THEN <<>>
  ELSE IF s[i].k = "atom"
       THEN LET e == IF type \in MemberTypes /\ i + 1 < c /\ s[i + 1].k = "comma"
                     THEN i + 1 ELSE i
            IN <<[first |-> i, last |-> e]>> \o ItemsFrom(s, type, e + 1, c)
  ELSE IF s[i].k = "open"
       THEN LET e == NodeLast(s, i)
            IN IF e = 0 \/ e >= c THEN <<>>
               ELSE <<[first |-> i, last |-> e]>> \o ItemsFrom(s, type, e + 1, c)
  ELSE ItemsFrom(s, type, i + 1, c)

\* The node of the list opened at o: range is a pair of offsets.
NodeAt(s, o) ==
  LET c == MatchClose(s, o + 1, 1)
  IN [type |-> s[o].v[1], open |-> o, close |-> c, last |-> NodeLast(s, o),
      range |-> <<o - 1, NodeLast(s, o)>>,
      items |-> ItemsFrom(s, s[o].v[1], o + 1, c)]

ListNodes(s) == [i \in 1..Len(Positions(s, "open")) |-> NodeAt(s, Positions(s, "open")[i])]

\* The separators between consecutive children are what the grammar asks
\* for: a `,` between the elements of a list; a `,` or `;` ending a member
\* of a type literal, or a line break after it, and no `,` on its own.
SeparatedOk(s, node) ==
  LET items == node.items
      Between(k) == SubSeq(s, items[k].last + 1, items[k + 1].first - 1)
      After == SubSeq(s, items[Len(items)].last + 1, node.close - 1)
      Commas(g) == Len(Positions(g, "comma"))
      Ended(k) == s[items[k].last].k = "comma" \/ s[items[k].last].n = 1
  IN IF node.type \in MemberTypes
     THEN /\ \A k \in 1..(Len(items) - 1) :
               Commas(Between(k)) = 0 /\ (Ended(k) \/ HasNl(Between(k)))
          /\ items # <<>> => Commas(After) = 0
          /\ items = <<>> => Commas(SubSeq(s, node.open + 1, node.close - 1)) = 0
     ELSE /\ \A k \in 1..(Len(items) - 1) : Commas(Between(k)) = 1
          /\ items # <<>> => Commas(After) <= 1
          /\ items # <<>> => Commas(SubSeq(s, node.open + 1, items[1].first - 1)) = 0

\* The text parses: it is one element, every list is closed and every
\* token belongs to a list.
ListParses(s) ==
  LET first == getTokenAfter(s, 0)
  IN /\ first <= Len(s)
     /\ s[first].k = "open"
     /\ NodeLast(s, first) # 0
     /\ getTokenAfter(s, NodeLast(s, first)) > Len(s)
     /\ \A o \in 1..Len(s) : s[o].k = "open" =>
          /\ NodeLast(s, o) # 0
          /\ SeparatedOk(s, NodeAt(s, o))
          /\ \A i \in (o + 1)..(NodeAt(s, o).close - 1) :
               s[i].k \in {"atom", "open"} =>
                 \E k \in 1..Len(NodeAt(s, o).items) :
                   NodeAt(s, o).items[k].first <= i /\ i <= NodeAt(s, o).items[k].last

\* ------------------------------------------ consistent-list-newline: check
multilineNodes ==
  {"ArrayExpression", "FunctionDeclaration", "ObjectExpression", "ObjectPattern",
   "TSTypeLiteral", "TSTupleType", "TSInterfaceDeclaration"}

\* code.replace(/(\r\n|\n)/g, delimiter ?? '')
RECURSIVE ReplaceLines(_, _)
ReplaceLines(code, delimiter) ==
  IF code = <<>> THEN <<>>
  ELSE (IF Head(code).k = "nl"
        THEN (IF delimiter = "," THEN <<TComma>> ELSE <<>>)
        ELSE <<Head(code)>>)
       \o ReplaceLines(Tail(code), delimiter)

insertTextBefore(item, inserted) ==
  [range |-> <<item.first - 1, item.first - 1>>, text |-> inserted]
insertTextAfter(item, inserted) ==
  [range |-> <<item.last, item.last>>, text |-> inserted]

removeLines(s, start, end, delimiter) ==
  [range |-> <<start, end>>, text |-> ReplaceLines(SubSeq(s, start + 1, end), delimiter)]

getDelimiter(s, root, current) ==
  IF root.type \notin MemberTypes THEN "undefined"
  ELSE IF s[current.last].k = "comma" \/ s[current.last].n = 1 THEN "undefined"
  ELSE ","

ListReport(messageId, node, item, fix) ==
  [messageId |-> messageId, node |-> item, name |-> node.type, root |-> node.open, fix |-> fix]

\* The closing part of check: the line of the end of the list against the
\* line the last item ended on.
checkEnd(s, node, nextNode, mode, lastLine) ==
  LET items == node.items
      lastItem == items[Len(items)]
      tokenBeforeNext == getTokenBefore(s, nextNode)
      endRange == IF nextNode # 0
                  THEN (IF tokenBeforeNext - 1 < node.range[2]
                        THEN tokenBeforeNext - 1 ELSE node.range[2])
                  ELSE node.range[2]
      endLine == getLocFromIndex(s, endRange)
      delimiter == IF Len(items) = 1 THEN "" ELSE getDelimiter(s, node, lastItem)
  IN IF mode = "newline" /\ endLine = lastLine
     THEN <<ListReport("shouldWrap", node, lastItem, insertTextAfter(lastItem, <<TNl>>))>>
     ELSE IF mode = "inline" /\ endLine # lastLine
     THEN IF Len(items) = 1 /\ node.type \notin multilineNodes THEN <<>>
          ELSE IF getCommentsAfter(s, lastItem.last) # <<>> THEN <<>>
          ELSE IF HasNl(SubSeq(s, lastItem.last + 1, endRange))
          THEN <<ListReport("shouldNotWrap", node, lastItem,
                            removeLines(s, lastItem.last, endRange, delimiter))>>
          ELSE <<>>
     ELSE <<>>

\* checkItem without its inline branch.
checkItemWrapOnly(s, node, mode, idx, lastLine) ==
  IF mode = "newline" /\ LineOf(s, node.items[idx].first) = lastLine
  THEN [reports |-> <<ListReport("shouldWrap", node, node.items[idx],
                                 insertTextBefore(node.items[idx], <<TNl>>))>>,
        returned |-> FALSE]
  ELSE [reports |-> <<>>, returned |-> FALSE]

\* One step of items.forEach from the second item on: what it reports and
\* whether it gets to update lastLine.
checkItem(s, node, mode, idx, lastLine) ==
  LET item == node.items[idx]
      lastItem == node.items[idx - 1]
      currentStart == LineOf(s, item.first)
  IN IF mode = "newline" /\ currentStart = lastLine
     THEN [reports |-> <<ListReport("shouldWrap", node, item, insertTextBefore(item, <<TNl>>))>>,
           returned |-> FALSE]
     ELSE IF mode = "inline" /\ currentStart # lastLine
     THEN IF getCommentsBefore(s, item.first) # <<>>
          THEN [reports |-> <<>>, returned |-> TRUE]
          ELSE IF HasNl(SubSeq(s, lastItem.last + 1, item.first - 1))
          THEN [reports |-> <<ListReport("shouldNotWrap", node, item,
                                         removeLines(s, lastItem.last, item.first - 1,
                                                     getDelimiter(s, node, lastItem)))>>,
                returned |-> FALSE]
          ELSE [reports |-> <<>>, returned |-> FALSE]
     ELSE [reports |-> <<>>, returned |-> FALSE]

RECURSIVE checkItems(_, _, _, _, _, _, _)
checkItems(s, node, nextNode, mode, idx, lastLine, reports) ==
  IF idx > Len(node.items) THEN reports \o checkEnd(s, node, nextNode, mode, lastLine)
  ELSE checkItems(s, node, nextNode, mode, idx + 1,
                  IF checkItem(s, node, mode, idx, lastLine).returned
                  THEN lastLine ELSE LineOf(s, node.items[idx].last),
                  reports \o checkItem(s, node, mode, idx, lastLine).reports)

\* getFirstToken(node) is the opening token where the node starts with its
\* bracket; a call starts with its callee and a function with a keyword.
startTokenOf(s, node) ==
  LET firstToken == IF node.type \in {"CallExpression", "NewExpression"} THEN 0 ELSE node.open
      punctuator == firstToken # 0 /\ node.type # "FunctionExpression"
  IN IF node.type = "CallExpression" THEN node.open
     ELSE IF punctuator THEN firstToken
     ELSE getTokenBefore(s, node.items[1].first)

listMode(s, node) ==
  IF LineOf(s, node.items[1].first) = LineOf(s, startTokenOf(s, node)) THEN "inline" ELSE "newline"

\* nextNode is the position of the first token of the node after the list,
\* 0 when check is called without one.
check(s, node, nextNode) ==
  IF node.items = <<>> THEN <<>>
  ELSE IF LineOf(s, startTokenOf(s, node))
          = LineOf(s, getTokenAfter(s, node.items[Len(node.items)].last))
  THEN <<>>
  ELSE checkItems(s, node, nextNode, listMode(s, node), 2,
                  LineOf(s, node.items[1].last), <<>>)

\* The listeners: which lists are checked and with which next node.
ListenerKeys ==
  {"ArrayExpression", "CallExpression", "FunctionExpression",
   "TSFunctionType", "TSTupleType", "TSTypeLiteral"}

listenser(s, node, opts) ==
  IF node.type \in opts.disabled \/ node.type \notin ListenerKeys THEN <<>>
  ELSE IF node.type = "FunctionExpression" THEN check(s, node, node.last)
  ELSE check(s, node, 0)

\* One traversal of the file.
RECURSIVE listReportsFrom(_, _, _, _)
listReportsFrom(s, nodes, opts, i) ==
  IF i > Len(nodes) THEN <<>>
  ELSE listenser(s, nodes[i], opts) \o listReportsFrom(s, nodes, opts, i + 1)
listReports(s, opts) == listReportsFrom(s, ListNodes(s), opts, 1)

\* ------------------------------------------------------ the host's fixer
\* The fixes of a pass in the order of their ranges.
FixBefore(a, b) ==
  a.range[1] < b.range[1] \/ (a.range[1] = b.range[1] /\ a.range[2] < b.range[2])

RECURSIVE sortFixes(_)
sortFixes(fixes) ==
  IF fixes = {} THEN <<>>
  ELSE LET least == CHOOSE a \in fixes : \A b \in fixes : a = b \/ FixBefore(a, b) \/ a.range = b.range
       IN <<least>> \o sortFixes(fixes \ {least})

\* A fix that starts at or before the end of the one applied last is left
\* for the next pass.
RECURSIVE attemptFixes(_, _, _, _, _)
attemptFixes(s, fixes, i, lastPos, out) ==
  IF i > Len(fixes)
  THEN [text |-> out.text \o SubSeq(s, (IF lastPos < 0 THEN 0 ELSE lastPos) + 1, Len(s)),
        skipped |-> out.skipped]
  ELSE IF lastPos >= fixes[i].range[1]
  THEN attemptFixes(s, fixes, i + 1, lastPos, [out EXCEPT !.skipped = @ + 1])
  ELSE attemptFixes(s, fixes, i + 1, fixes[i].range[2],
                    [out EXCEPT !.text = @ \o SubSeq(s, (IF lastPos < 0 THEN 0 ELSE lastPos) + 1,
                                                    fixes[i].range[1])
                                              \o fixes[i].text])

applyFixes(s, reports) ==
  attemptFixes(s, sortFixes({reports[i].fix : i \in 1..Len(reports)}), 1, -1,
               [text |-> <<>>, skipped |-> 0])

\* ----------------------------------------- consistent-list-newline: inputs
RECURSIVE Interleave(_, _)
Interleave(items, gaps) ==
  IF Len(items) <= 1 THEN Flatten(items)
  ELSE Head(items) \o Head(gaps) \o Interleave(Tail(items), Tail(gaps))

\* What follows the closing token of a list of the type.
ListOf(type, lead, items, gaps, tail) ==
  <<TOpen(type)>> \o lead \o Interleave(items, gaps) \o tail \o <<TClose>>
    \o (IF type = "FunctionExpression" THEN <<TBody>> ELSE <<>>)
FunctionTypeOf(lead, items, gaps, tail, returnType) ==
  ListOf("TSFunctionType", lead, items, gaps, tail) \o <<TArrow>> \o returnType

AtomNames == <<"a", "b", "c", "d", "e">>
Atoms(n) == [k \in 1..n |-> <<TAtom(<<AtomNames[k]>>)>>]

LeadPool == {<<>>, <<TNl>>}
\* `,` | `,\n` | `\n,` | `,\n/*c*/` | `, //c\n` | `/*c*/,\n`
GapPool ==
  {<<TComma>>, <<TComma, TNl>>, <<TNl, TComma>>, <<TComma, TNl, TBlock(<<"c">>)>>,
   <<TComma, TLine(<<"c">>), TNl>>, <<TBlock(<<"c">>), TComma, TNl>>}
\* `` | `\n` | `,` | `,\n` | ` //c\n` | `, //c\n`
TailPool ==
  {<<>>, <<TNl>>, <<TComma>>, <<TComma, TNl>>, <<TLine(<<"c">>), TNl>>,
   <<TComma, TLine(<<"c">>), TNl>>}
PlainGapPool == {<<TComma>>, <<TComma, TNl>>}
PlainTailPool == {<<>>, <<TNl>>}

\* Lists of atoms, with comments in the gaps.
FlatLists(type) ==
  UNION {{ListOf(type, lead, Atoms(n), gaps, tail) :
            lead \in LeadPool, gaps \in [1..(n - 1) -> GapPool], tail \in TailPool}
         : n \in 1..MaxListItems}

\* Type literals: a member ends with `;`, with `,` or with nothing, and
\* the members are separated by nothing, a line break or a blank line.
MemberPool(k) ==
  {<<TAtom(<<AtomNames[k]>>)>>, <<TMember(<<AtomNames[k]>>)>>, <<TAtom(<<AtomNames[k]>>), TComma>>}
MemberGapPool == {<<>>, <<TNl>>, <<TNl, TNl>>}
TypeLiterals ==
  UNION {{ListOf("TSTypeLiteral", lead, items, gaps, tail) :
            lead \in LeadPool,
            items \in {it \in [1..n -> UNION {MemberPool(k) : k \in 1..n}] :
                         \A k \in 1..n : it[k] \in MemberPool(k)},
            gaps \in [1..(n - 1) -> MemberGapPool], tail \in PlainTailPool}
         : n \in 1..MaxNestedItems}

\* The layouts of an inner list of two atoms, or of one:
\* `[x, y]`, `[x,\n y]`, `[\n x, y\n]`, `[\n x,\n y\n]`, `[\n x, y]`, `[x\n]`.
InnerItems == <<<<TAtom(<<"x">>)>>, <<TAtom(<<"y">>)>>>>
InnerLayouts(type) ==
  {ListOf(type, <<>>, InnerItems, <<<<TComma>>>>, <<>>),
   ListOf(type, <<>>, InnerItems, <<<<TComma, TNl>>>>, <<>>),
   ListOf(type, <<TNl>>, InnerItems, <<<<TComma>>>>, <<TNl>>),
   ListOf(type, <<TNl>>, InnerItems, <<<<TComma, TNl>>>>, <<TNl>>),
   ListOf(type, <<TNl>>, InnerItems, <<<<TComma>>>>, <<>>),
   ListOf(type, <<>>, <<InnerItems[1]>>, <<>>, <<TNl>>)}

\* A list of one or two elements, one of them an inner list.
NestedItems(inner) ==
  UNION {{<<i>>, <<<<TAtom(<<"a">>)>>, i>>, <<i, <<TAtom(<<"a">>)>>>>} : i \in inner}
PlainLists(type, itemSeqs) ==
  {ListOf(type, lead, items, [k \in 1..(Len(items) - 1) |-> gap], tail) :
     lead \in LeadPool, items \in itemSeqs, gap \in PlainGapPool, tail \in PlainTailPool}

InnerExpressions ==
  InnerLayouts("ArrayExpression") \cup InnerLayouts("CallExpression")
    \cup InnerLayouts("FunctionExpression")
InnerTypes == InnerLayouts("TSTupleType") \cup InnerLayouts("TSTypeLiteral")
FunctionTypes ==
  {FunctionTypeOf(lead, Atoms(n), [k \in 1..(n - 1) |-> gap], tail, returnType) :
     lead \in LeadPool, n \in 1..MaxNestedItems, gap \in PlainGapPool, tail \in PlainTailPool,
     returnType \in InnerTypes \cup {<<TAtom(<<"r">>)>>}}

ListFiles ==
  FlatLists("ArrayExpression") \cup FlatLists("CallExpression")
    \cup FlatLists("FunctionExpression") \cup TypeLiterals
    \cup PlainLists("ArrayExpression", NestedItems(InnerExpressions))
    \cup PlainLists("CallExpression", NestedItems(InnerExpressions))
    \cup PlainLists("TSTupleType", NestedItems(InnerTypes \cup FunctionTypes))
    \cup FunctionTypes

ListOptionSets == {[disabled |-> {}], [disabled |-> {"CallExpression", "TSFunctionType"}]}

\* ---------------------------------- consistent-list-newline: state machine
\* The host lints the file, applies the fixes of the pass that do not
\* conflict and lints the result again.
InitList ==
  /\ text \in ListFiles
  /\ options \in ListOptionSets
  /\ pass = 0
  /\ phase = "lint"
  /\ report = <<>>
  /\ history = <<>>

ListProgram ==
  /\ phase = "lint"
  /\ pass < MaxPasses
  /\ report' = listReports(text, options)
  /\ pass' = pass + 1
  /\ phase' = IF report' = <<>> THEN "done" ELSE "fix"
  /\ UNCHANGED <<text, options, history>>

ListApplyFixes ==
  /\ phase = "fix"
  /\ text' = Lex(applyFixes(text, report).text)
  /\ history' = Append(history, text)
  /\ phase' = IF ListParses(text') THEN "lint" ELSE "broken"
  /\ UNCHANGED <<options, pass, report>>

NextList == ListProgram \/ ListApplyFixes
SpecList == InitList /\ [][NextList]_vars

\* =================================================================
\* consistent-chaining (rules/consistent-chaining.ts)
\* =================================================================
\* A file is one expression: a head (identifier, `this` or literal)
\* followed by property accesses, calls, computed accesses and non-null
\* assertions; the arguments and computed keys are expressions again.
TThis == Tok("this", <<>>, 0)
TLiteral(v) == Tok("literal", v, 0)
TDot == Tok("dot", <<>>, 0)
TLParen == Tok("lparen", <<>>, 0)
TRParen == Tok("rparen", <<>>, 0)
TLBracket == Tok("lbracket", <<>>, 0)
TRBracket == Tok("rbracket", <<>>, 0)
TBang == Tok("bang", <<>>, 0)

NoNode == [type |-> "none", first |-> 0, last |-> 0, object |-> <<>>, property |-> 0,
           computed |-> FALSE, arguments |-> <<>>]
\* object holds the object of a member access, the callee of a call and the
\* expression of a non-null assertion; arguments holds the arguments of a
\* call and the key of a computed access; property is the position of the
\* property name of a member access that is not computed.
AstNode(type, first, last, object, property, computed, arguments) ==
  [type |-> type, first |-> first, last |-> last, object |-> <<object>>,
   property |-> property, computed |-> computed, arguments |-> arguments]
Leaf(type, i) == [NoNode EXCEPT !.type = type, !.first = i, !.last = i]
KindAt(s, i) == IF i >= 1 /\ i <= Len(s) THEN s[i].k ELSE "eof"

RECURSIVE ParsePostfix(_, _)
RECURSIVE ParseArguments(_, _, _)
\* The expression that starts with the code token after position p;
\* NoNode when there is none.
ParseExpression(s, p) ==
  LET i == getTokenAfter(s, p)
      k == KindAt(s, i)
  IN IF k = "id" THEN ParsePostfix(s, Leaf("Identifier", i))
     ELSE IF k = "this" THEN ParsePostfix(s, Leaf("ThisExpression", i))
     ELSE IF k = "literal" THEN ParsePostfix(s, Leaf("Literal", i))
     ELSE NoNode

\* The arguments from position p on, up to the closing token: a record
\* of the arguments and the position of the closing token (0: no parse).
ParseArguments(s, p, acc) ==
  LET i == getTokenAfter(s, p)
      arg == ParseExpression(s, p)
      after == getTokenAfter(s, arg.last)
  IN IF KindAt(s, i) = "rparen" /\ acc = <<>> THEN [arguments |-> acc, close |-> i]
     ELSE IF arg.type = "none" THEN [arguments |-> <<>>, close |-> 0]
     ELSE IF KindAt(s, after) = "rparen" THEN [arguments |-> Append(acc, arg), close |-> after]
     ELSE IF KindAt(s, after) = "comma" THEN ParseArguments(s, after, Append(acc, arg))
     ELSE [arguments |-> <<>>, close |-> 0]

\* The longest expression that starts with node.
ParsePostfix(s, node) ==
  LET t == getTokenAfter(s, node.last)
      k == KindAt(s, t)
      name == getTokenAfter(s, t)
      key == ParseExpression(s, t)
      close == getTokenAfter(s, key.last)
      args == ParseArguments(s, t, <<>>)
  IN IF node.type = "none" THEN NoNode
     ELSE IF k = "dot"
     THEN IF KindAt(s, name) = "id"
          THEN ParsePostfix(s, AstNode("MemberExpression", node.first, name, node, name, FALSE, <<>>))
          ELSE NoNode
     ELSE IF k = "lbracket"
     THEN IF key.type # "none" /\ KindAt(s, close) = "rbracket"
          THEN ParsePostfix(s, AstNode("MemberExpression", node.first, close, node, 0, TRUE, <<key>>))
          ELSE NoNode
     ELSE IF k = "lparen"
     THEN IF args.close # 0
          THEN ParsePostfix(s, AstNode("CallExpression", node.first, args.close, node, 0, FALSE,
                                       args.arguments))
          ELSE NoNode
     ELSE IF k = "bang"
     THEN ParsePostfix(s, AstNode("TSNonNullExpression", node.first, t, node, 0, FALSE, <<>>))
     ELSE node

\* The expression of the file, NoNode when the text is not one expression.
ParseChain(s) ==
  LET e == ParseExpression(s, 0)
  IN IF e.type # "none" /\ getTokenAfter(s, e.last) > Len(s) THEN e ELSE NoNode

\* ------------------------------------------------ consistent-chaining: rule
NodeId(node) == <<node.first, node.last>>

\* The walk down from the root: the member accesses that are not computed,
\* the innermost first.
RECURSIVE collectMembers(_)
collectMembers(current) ==
  IF current.type = "MemberExpression"
  THEN collectMembers(current.object[1]) \o (IF current.computed THEN <<>> ELSE <<current>>)
  ELSE IF current.type \in {"CallExpression", "TSNonNullExpression"}
  THEN collectMembers(current.object[1])
  ELSE <<>>

\* token.loc.start.line === tokenBefore.loc.end.line ? 'single' : 'multi'
currentModeOf(s, m) ==
  IF LineOf(s, getTokenBefore(s, m.property))
     = LineOf(s, getTokenBefore(s, getTokenBefore(s, m.property)))
  THEN "single" ELSE "multi"

objectOf(m) ==
  IF m.object[1].type = "TSNonNullExpression" THEN m.object[1].object[1] ELSE m.object[1]

LeadingObjectTypesNoMember == {"ThisExpression", "Identifier", "Literal"}
LeadingObjectTypes == {"ThisExpression", "Identifier", "MemberExpression", "Literal"}

\* chainFix with the line break put before the `.` itself.
chainFixAtDot(s, m, mode) ==
  IF mode = "multi"
  THEN [range |-> <<getTokenBefore(s, m.property) - 1, getTokenBefore(s, m.property) - 1>>,
        text |-> <<TNl>>]
  ELSE [range |-> <<getTokenBefore(s, getTokenBefore(s, m.property)),
                    getTokenBefore(s, m.property) - 1>>,
        text |-> <<>>]

\* chainFix with a space for the line break.
chainFixSpace(s, m, mode) ==
  IF mode = "multi"
  THEN [range |-> <<getTokenBefore(s, getTokenBefore(s, m.property)),
                    getTokenBefore(s, getTokenBefore(s, m.property))>>,
        text |-> <<TSp(1)>>]
  ELSE [range |-> <<getTokenBefore(s, getTokenBefore(s, m.property)),
                    getTokenBefore(s, m.property) - 1>>,
        text |-> <<>>]

chainFix(s, m, mode) ==
  IF mode = "multi"
  THEN [range |-> <<getTokenBefore(s, getTokenBefore(s, m.property)),
                    getTokenBefore(s, getTokenBefore(s, m.property))>>,
        text |-> <<TNl>>]
  ELSE [range |-> <<getTokenBefore(s, getTokenBefore(s, m.property)),
                    getTokenBefore(s, m.property) - 1>>,
        text |-> <<>>]

\* What members.forEach does with one member: it is passed over as a
\* leading access, it sets the mode, it agrees with the mode or it is
\* reported.
outcomeOf(s, m, leading, mode) ==
  IF leading /\ objectOf(m).type \in LeadingObjectTypes /\ currentModeOf(s, m) = "single"
  THEN "exempted"
  ELSE IF mode = "null" THEN "established"
  ELSE IF mode # currentModeOf(s, m) THEN "reported"
  ELSE "agreed"

RECURSIVE checkMembers(_, _, _, _, _, _)
checkMembers(s, members, idx, leading, mode, acc) ==
  IF idx > Len(members) THEN acc
  ELSE checkMembers(s, members, idx + 1,
                    leading /\ outcomeOf(s, members[idx], leading, mode) = "exempted",
                    IF outcomeOf(s, members[idx], leading, mode) = "established"
                    THEN currentModeOf(s, members[idx]) ELSE mode,
                    Append(acc, [property |-> members[idx].property,
                                 outcome |-> outcomeOf(s, members[idx], leading, mode),
                                 mode |-> mode]))

chainReport(s, root, members, idx, mode) ==
  [messageId |-> IF mode = "single" THEN "shouldNotWrap" ELSE "shouldWrap",
   token |-> getTokenBefore(s, members[idx].property),
   name |-> root.type,
   fix |-> chainFix(s, members[idx], mode)]

RECURSIVE chainReports(_, _, _, _, _)
chainReports(s, root, members, evaluated, idx) ==
  IF idx > Len(members) THEN <<>>
  ELSE (IF evaluated[idx].outcome = "reported"
        THEN <<chainReport(s, root, members, idx, evaluated[idx].mode)>> ELSE <<>>)
       \o chainReports(s, root, members, evaluated, idx + 1)

\* The MemberExpression listener on a node whose topmost member or call
\* ancestor is root; st is what the rule has done so far in the traversal.
MemberExpression(s, root, st, opts) ==
  IF NodeId(root) \in st.knownRoot THEN st
  ELSE [knownRoot |-> st.knownRoot \cup {NodeId(root)},
        reports |-> st.reports
                      \o chainReports(s, root, collectMembers(root),
                                      checkMembers(s, collectMembers(root), 1,
                                                   opts.allowLeadingPropertyAccess, "null", <<>>), 1),
        passes |-> Append(st.passes,
                          [root |-> NodeId(root),
                           evaluated |-> checkMembers(s, collectMembers(root), 1,
                                                      opts.allowLeadingPropertyAccess, "null", <<>>)])]

\* The children of a node in the order the host visits them.
ChildrenOf(node) ==
  IF node.type \in {"MemberExpression", "CallExpression"} THEN node.object \o node.arguments
  ELSE node.object

\* The host's traversal: a node before its children. root is the topmost
\* ancestor the node reaches through parents that are member accesses or
\* calls, the node itself when its parent is neither.
RECURSIVE traverse(_, _, _, _, _)
RECURSIVE traverseChildren(_, _, _, _, _, _)
traverse(s, node, root, st, opts) ==
  traverseChildren(s, node, root, 1,
                   IF node.type = "MemberExpression" THEN MemberExpression(s, root, st, opts) ELSE st,
                   opts)
traverseChildren(s, node, root, idx, st, opts) ==
  IF idx > Len(ChildrenOf(node)) THEN st
  ELSE traverseChildren(s, node, root, idx + 1,
                        traverse(s, ChildrenOf(node)[idx],
                                 IF node.type \in {"MemberExpression", "CallExpression"}
                                 THEN root ELSE ChildrenOf(node)[idx],
                                 st, opts),
                        opts)

chainLint(s, opts) ==
  traverse(s, ParseChain(s), ParseChain(s), [knownRoot |-> {}, reports |-> <<>>, passes |-> <<>>], opts)

\* --------------------------------------------- consistent-chaining: inputs
\* `k().v\n.w`: a chain of its own, with one access against its mode.
InnerChain ==
  <<TId(<<"k">>), TLParen, TRParen, TDot, TId(<<"v">>), TNl, TDot, TId(<<"w">>)>>

\* What a link adds to the text of a chain: a property access on the same
\* line or on the next, a call without or with an argument, a computed
\* access, a non-null assertion.
LinkKinds == {"single", "multi", "call", "argument", "key", "bang"}
LinkText(kind) ==
  CASE kind = "single" -> <<TDot, TId(<<"p">>)>>
    [] kind = "multi" -> <<TNl, TDot, TId(<<"p">>)>>
    [] kind = "call" -> <<TLParen, TRParen>>
    [] kind = "argument" -> <<TLParen>> \o InnerChain \o <<TRParen>>
    [] kind = "key" -> <<TLBracket>> \o InnerChain \o <<TRBracket>>
    [] kind = "bang" -> <<TBang>>

HeadPool == {<<TId(<<"a">>)>>, <<TThis>>, <<TLiteral(<<"1">>)>>}
ChainOf(head, kinds) == head \o Flatten([i \in 1..Len(kinds) |-> LinkText(kinds[i])])
Chains(n) == UNION {{ChainOf(head, kinds) : head \in HeadPool, kinds \in [1..m -> LinkKinds]} : m \in 1..n}

\* What stands between a `.` and the token before it: nothing, a space, a
\* line break, a block comment, a line comment and its line break.
DotGapPool ==
  {<<>>, <<TSp(1)>>, <<TNl>>, <<TSp(1), TBlock(<<"c">>), TSp(1)>>, <<TSp(1), TLine(<<"c">>), TNl>>}
\* `a.p()<gap>.q()<gap>.r`
GapChains ==
  {<<TId(<<"a">>), TDot, TId(<<"p">>), TLParen, TRParen>> \o g1
     \o <<TDot, TId(<<"q">>), TLParen, TRParen>> \o g2 \o <<TDot, TId(<<"r">>)>> :
     g1 \in DotGapPool, g2 \in DotGapPool}

ChainFiles == Chains(MaxLinks) \cup GapChains
ChainOptionSets ==
  {[allowLeadingPropertyAccess |-> TRUE], [allowLeadingPropertyAccess |-> FALSE]}

\* ----------------------------------------- consistent-chaining: state machine
NotRunChain == [knownRoot |-> {}, reports |-> <<>>, passes |-> <<>>]

InitChain ==
  /\ text \in ChainFiles
  /\ options \in ChainOptionSets
  /\ pass = 0
  /\ phase = "lint"
  /\ report = NotRunChain
  /\ history = <<>>

ChainProgram ==
  /\ phase = "lint"
  /\ pass < MaxPasses
  /\ report' = chainLint(text, options)
  /\ pass' = pass + 1
  /\ phase' = IF report'.reports = <<>> THEN "done" ELSE "fix"
  /\ UNCHANGED <<text, options, history>>

ChainApplyFixes ==
  /\ phase = "fix"
  /\ text' = Lex(applyFixes(text, report.reports).text)
  /\ history' = Append(history, text)
  /\ phase' = IF ParseChain(text').type # "none" THEN "lint" ELSE "broken"
  /\ UNCHANGED <<options, pass, report>>

NextChain == ChainProgram \/ ChainApplyFixes
SpecChain == InitChain /\ [][NextChain]_vars

\* ------------------------------------ consistent-list-newline: properties
\* The state after the fixes of a pass were applied to a text that still
\* parses, none of them left for a later pass.
ListFixed == phase = "lint" /\ history # <<>>
Before == history[Len(history)]
AllApplied == applyFixes(Before, report).skipped = 0
CheckedNodes(s) ==
  {n \in {ListNodes(s)[i] : i \in 1..Len(ListNodes(s))} :
     n.type \notin options.disabled /\ n.items # <<>>}

EveryWrapped(s, node) ==
  \A k \in 2..Len(node.items) :
    LineOf(s, node.items[k].first) # LineOf(s, node.items[k - 1].last)
EveryInline(s, node) ==
  \A k \in 2..Len(node.items) :
    LineOf(s, node.items[k].first) = LineOf(s, node.items[k - 1].last)
\* In newline mode every later element on the end line of the one before it
\* is reported shouldWrap, with a line break inserted before it.
WrapReported(s, node) ==
  \A k \in 2..Len(node.items) :
    LineOf(s, node.items[k].first) = LineOf(s, node.items[k - 1].last) =>
      \E i \in 1..Len(report) :
        /\ report[i].messageId = "shouldWrap"
        /\ report[i].node = node.items[k]
        /\ report[i].fix = [range |-> <<node.items[k].first - 1, node.items[k].first - 1>>,
                            text |-> <<TNl>>]
NewlineModeReported ==
  (phase \in {"fix", "done"} /\ pass > 0) =>
    \A node \in CheckedNodes(text) : listMode(text, node) = "newline" => WrapReported(text, node)

\* C15: after all the fixes of a pass are applied, the elements of every
\* checked list are either all on a line of their own or all on the line
\* where the element before them ended, and in newline mode every later
\* element on its predecessor's end line is reported shouldWrap with a
\* line break inserted before it.
C15_ModeConsistency ==
  /\ (ListFixed /\ AllApplied) =>
       \A node \in CheckedNodes(text) : EveryWrapped(text, node) \/ EveryInline(text, node)
  /\ NewlineModeReported

\* C15, for the elements that have no comment before them: an element with
\* a comment before it is left where it is.
Uncommented(s, node) == {k \in 2..Len(node.items) : getCommentsBefore(s, node.items[k].first) = <<>>}
C15_ModeConsistencyBarCommented ==
  /\ (ListFixed /\ AllApplied) =>
       \A node \in CheckedNodes(text) :
         \/ \A k \in Uncommented(text, node) :
              LineOf(text, node.items[k].first) # LineOf(text, node.items[k - 1].last)
         \/ \A k \in Uncommented(text, node) :
              LineOf(text, node.items[k].first) = LineOf(text, node.items[k - 1].last)
  /\ NewlineModeReported

\* A list in newline mode had an element on its predecessor's end line, and
\* one in inline mode an element on a line of its own; the fixes were applied.
C15_Witness ==
  /\ ListFixed
  /\ AllApplied
  /\ \E i, j \in 1..Len(report) :
       report[i].messageId = "shouldWrap" /\ report[j].messageId = "shouldNotWrap"
  /\ \E node \in CheckedNodes(text) : Len(node.items) >= 2 /\ EveryWrapped(text, node)

\* A pass has run on the result of applying every fix of the pass before it.
ListRanAfterFix ==
  /\ phase \in {"fix", "done"}
  /\ history # <<>>
  /\ applyFixes(Before, listReports(Before, options)).skipped = 0

\* C16: a pass over the result of applying all the fixes of a pass reports
\* nothing.
C16_ListIdempotent == ListRanAfterFix => report = <<>>

\* Two fix ranges share a character, or one is an insertion point inside
\* the other or at the other insertion point; ranges that only touch at an
\* end do not overlap.
RangesOverlap(a, b) ==
  \/ (a[1] < b[2] /\ b[1] < a[2])
  \/ (a[1] = a[2] /\ b[1] = b[2] /\ a[1] = b[1])

\* C17: the ranges of the fixes of different reports of one pass are
\* pairwise disjoint.
C17_FixesDisjoint ==
  \A i, j \in 1..Len(report) :
    i # j => ~RangesOverlap(report[i].fix.range, report[j].fix.range)

\* ---------------------------------------- consistent-chaining: properties
\* A traversal has run on the text.
ChainLinted == phase \in {"fix", "done"} /\ pass > 0
ChainPasses == {report.passes[i] : i \in 1..Len(report.passes)}
DotOf(property) == getTokenBefore(text, property)
BeforeDot(property) == getTokenBefore(text, DotOf(property))
DotStatus(property) ==
  IF LineOf(text, DotOf(property)) = LineOf(text, BeforeDot(property)) THEN "single" ELSE "multi"
NotExempted(c) == {i \in 1..Len(c.evaluated) : c.evaluated[i].outcome # "exempted"}
\* The first access of the chain pass that is not exempted, 0 when there is none.
FirstBound(c) ==
  IF NotExempted(c) = {} THEN 0 ELSE CHOOSE i \in NotExempted(c) : \A j \in NotExempted(c) : i <= j
ReportsOf(property) ==
  {report.reports[i] : i \in 1..Len(report.reports)} \cap
    {r \in {report.reports[i] : i \in 1..Len(report.reports)} : r.token = DotOf(property)}

\* The accesses of a chain pass after the one that set the mode are
\* reported exactly when their status differs from the mode, with the fix
\* wrap(property) for mode multi and the removal of the gap for mode single.
ModeBinds(c, wrapAt(_)) ==
  \A j \in 1..Len(c.evaluated) :
    LET property == c.evaluated[j].property
        mode == DotStatus(c.evaluated[FirstBound(c)].property)
    IN IF j \in NotExempted(c) /\ j > FirstBound(c) /\ DotStatus(property) # mode
       THEN /\ ReportsOf(property) # {}
            /\ \A r \in ReportsOf(property) :
                 IF mode = "multi"
                 THEN /\ r.messageId = "shouldWrap"
                      /\ r.fix = [range |-> <<wrapAt(property), wrapAt(property)>>, text |-> <<TNl>>]
                 ELSE /\ r.messageId = "shouldNotWrap"
                      /\ r.fix = [range |-> <<BeforeDot(property), DotOf(property) - 1>>,
                                  text |-> <<>>]
       ELSE ReportsOf(property) = {}

AtDot(property) == DotOf(property) - 1
AfterTokenBefore(property) == BeforeDot(property)

ObjectEnd(property) ==
  IF text[BeforeDot(property)].k = "bang"
  THEN text[getTokenBefore(text, BeforeDot(property))].k
  ELSE text[BeforeDot(property)].k
SimpleObject(property) == ObjectEnd(property) \in {"id", "this", "literal", "rbracket"}
Exempted(c) == {i \in 1..Len(c.evaluated) : c.evaluated[i].outcome = "exempted"}

\* C19: with allowLeadingPropertyAccess only the first access of a chain
\* is exempted, and only on the line of an object that is an identifier,
\* `this`, a literal or a member access; without it no access is exempted.
C19_LeadingExemption ==
  ChainLinted =>
    \A c \in ChainPasses : \A j \in Exempted(c) :
      /\ options.allowLeadingPropertyAccess
      /\ j = 1
      /\ DotStatus(c.evaluated[j].property) = "single"
      /\ SimpleObject(c.evaluated[j].property)

\* C19, for the leading run of accesses: an access is exempted exactly when
\* allowLeadingPropertyAccess is set, every access before it was exempted,
\* and it is on the line of an object that is an identifier, `this`, a
\* literal or a member access.
C19_LeadingRunExemption ==
  ChainLinted =>
    \A c \in ChainPasses : \A j \in 1..Len(c.evaluated) :
      j \in Exempted(c) <=>
        /\ options.allowLeadingPropertyAccess
        /\ \A i \in 1..(j - 1) : i \in Exempted(c)
        /\ DotStatus(c.evaluated[j].property) = "single"
        /\ SimpleObject(c.evaluated[j].property)

\* Two leading accesses are exempted and a later access of the chain is
\* reported.
C19_Witness ==
  /\ ChainLinted
  /\ \E c \in ChainPasses :
       /\ {1, 2} \subseteq Exempted(c)
       /\ \E j \in 1..Len(c.evaluated) : c.evaluated[j].outcome = "reported"

\* The property names of the text: the identifiers that follow a `.`.
PropertyAccesses ==
  {i \in 1..Len(text) : text[i].k = "id" /\ KindAt(text, getTokenBefore(text, i)) = "dot"}
Evaluations(property) ==
  {<<i, j>> \in (1..Len(report.passes)) \X (1..Len(text)) :
     /\ j <= Len(report.passes[i].evaluated)
     /\ report.passes[i].evaluated[j].property = property}

\* C20: in one traversal every property access of the file is evaluated by
\* exactly one chain pass.
C20_ChainOnce ==
  ChainLinted => \A property \in PropertyAccesses : Cardinality(Evaluations(property)) = 1

\* A traversal has run on the result of applying every fix of the
\* traversal before it.
ChainRanAfterFix ==
  /\ ChainLinted
  /\ history # <<>>
  /\ applyFixes(Before, chainLint(Before, options).reports).skipped = 0

\* C21: a traversal over the result of applying all the fixes of a
\* traversal of consistent-chaining reports nothing.
C21_ChainIdempotent == ChainRanAfterFix => report.reports = <<>>

\* Line breaks were inserted in one chain, or gaps removed, two of them at
\* least, and the rule ran again.
C21_Witness ==
  /\ ChainRanAfterFix
  /\ Len(chainLint(Before, options).reports) >= 2
  /\ text # Before

\* ---------------------------------------- import-sort: the report's data
\* Declarations for the report's data: a side-effect import that splits the
\* block, an import whose named specifiers are out of order, and two imports
\* of one source.
DataDeclPool ==
  { PlainImport("value", <<"a">>, <<>>, <<"f", "s">>),
    NamedImport("value", <<>>, <<TSpec(<<"b">>), TComma, TSp(1), TSpec(<<"a">>)>>, <<"x">>),
    NamedImport("value", <<>>, One(<<"d">>), <<".", ".", "/", "a">>),
    PlainImport("value", <<>>, <<"n">>, <<"x">>),
    SideEffectImport(<<".", "/", "s">>) }

InitData ==
  /\ text \in BlocksOf(DataDeclPool, MaxEntries)
  /\ options \in OptionSets
  /\ pass = 0
  /\ phase = "lint"
  /\ report = NotRun
  /\ history = <<>>

SpecData == InitData /\ [][Next]_vars

\* The indices of the block at which the sorted order differs from the
\* original one.
BlockDifferences == {i \in 1..Len(Original) : Final[i].node # Original[i].node}
FirstBlockDifference == CHOOSE i \in BlockDifferences : \A j \in BlockDifferences : i <= j

\* C22: the report is importSortDetailed exactly when the outer order
\* changed; expected is then the entry the sorted order has at the first
\* index of the block where it differs from the original order, actual the
\* original entry there, and the two differ; a report for a change of
\* specifier order alone is importSort without data.
C22_DetailedDiagnostic ==
  report.reported =>
    /\ report.messageId = "importSortDetailed" <=> report.didReorder
    /\ report.didReorder =>
         /\ BlockDifferences # {}
         /\ report.mismatch[1].expected = Final[FirstBlockDifference]
         /\ report.mismatch[1].actual = Original[FirstBlockDifference]
         /\ report.mismatch[1].expected.node # report.mismatch[1].actual.node
         /\ report.data = <<[expected |-> Final[FirstBlockDifference].sourceValue,
                             expectedCategory |-> getImportPathLabel(Final[FirstBlockDifference]),
                             actual |-> Original[FirstBlockDifference].sourceValue,
                             actualCategory |-> getImportPathLabel(Original[FirstBlockDifference])]>>
    /\ ~report.didReorder => report.messageId = "importSort" /\ report.data = <<>>

\* The outer order changed at an index after the first, behind a side-effect
\* import that stays in place.
C22_Witness ==
  /\ report.reported
  /\ report.didReorder
  /\ report.hasInnerChange
  /\ FirstBlockDifference > 1
  /\ \E i \in 1..Len(Original) : ~Original[i].isSortable

\* ------------------------------------- import-sort: the rebuilt block's lines
\* Declarations ended by `;`, which may share a line.
GapDeclPool ==
  { <<TImport, TSp(1), TId(<<"a">>), TSp(1), TFrom, TSp(1), TSrcSemi(<<"f", "s">>)>>,
    <<TImport, TSp(1), TId(<<"b", "b">>), TSp(1), TFrom, TSp(1), TSrcSemi(<<"x">>)>>,
    <<TImport, TSp(1), TId(<<"c", "c", "c">>), TSp(1), TFrom, TSp(1), TSrcSemi(<<"o">>)>> }

\* What stands between two declarations of a block.
GapTextPool ==
  { <<TNl>>,
    <<TNl, TNl>>,
    <<TSp(1)>>,
    <<TSp(1), TBlock(<<"c">>), TSp(1)>>,
    <<TSp(1), TLine(<<"c">>), TNl>>,
    <<TNl, TBlock(<<"c">>), TNl>> }

RECURSIVE GapBlocksOf(_)
GapBlocksOf(n) ==
  IF n = 1 THEN GapDeclPool
  ELSE LET shorter == GapBlocksOf(n - 1)
       IN shorter \cup {b \o g \o d : b \in {x \in shorter : Len(Positions(x, "import")) = n - 1},
                                      g \in GapTextPool, d \in GapDeclPool}

GapOptionSets == {o \in OptionSets : o.pathGroups = <<>> /\ o.typeImportHandling = "before"}

InitGap ==
  /\ text \in GapBlocksOf(MaxEntries)
  /\ options \in GapOptionSets
  /\ pass = 0
  /\ phase = "lint"
  /\ report = NotRun
  /\ history = <<>>

SpecGap == InitGap /\ [][Next]_vars

\* What the rebuilt block puts before the entry at index i.
PrefixOf(i) == rebuildPrefix(Final[i], i)

\* The import declarations of txt that follow another one on its line.
SharedLine(txt) ==
  {i \in 2..Len(Parse(txt).nodes) : ~HasNl(Parse(txt).nodes[i].leading)}

\* C23: the rebuilt block emits the first entry without the leading
\* whitespace of its leading span and every other entry after its own
\* leading span, with a line separator before every entry whose leading
\* span has no line break, so that no two declarations share a line of the
\* output.
C23_SeparateLines ==
  report.reported =>
    /\ report.replacement = Flatten([i \in 1..Len(Final) |-> PrefixOf(i) \o Final[i].text])
    /\ PrefixOf(1) = StripLeadingWs(Final[1].leadingText)
    /\ \A i \in 2..Len(Final) :
         /\ HasNl(Final[i].leadingText) => PrefixOf(i) = Final[i].leadingText
         /\ HasNl(PrefixOf(i))
    /\ SharedLine(Lex(report.replacement)) = {}

\* ------------------------------------------ import-sort: the rewritten list
\* The brace content of a declaration text, as the host reads it.
InnerOf(toks) == ParseNode(Lex(toks), <<>>, 1).inner

\* A comma follows the last specifier of the brace content.
TrailingCommaIn(inner) ==
  LET c == CodeTokens(inner)
  IN c # <<>> /\ c[Len(c)].k = "comma"

\* The indentations of the lines of a brace content that are not blank.
IndentsOf(inner) ==
  {SpacesAt(inner, q + 1) : q \in {r \in 1..Len(inner) :
     inner[r].k = "nl" /\ SkipSpaces(inner, r + 1) <= Len(inner)}}

\* Every specifier of the brace content stands on a line of its own.
OnePerLine(inner) ==
  LET specs == Positions(inner, "spec")
  IN /\ \A k \in 1..Len(specs) : HasNl(SubSeq(inner, 1, specs[k] - 1))
     /\ \A k \in 1..(Len(specs) - 1) : HasNl(SubSeq(inner, specs[k] + 1, specs[k + 1] - 1))
     /\ specs # <<>> => HasNl(SubSeq(inner, specs[Len(specs)] + 1, Len(inner)))

\* The text of a declaration up to and including `{`, and from `}` on.
UpToBrace(toks) == SubSeq(toks, 1, FirstPos(toks, "lbrace"))
FromBrace(toks) == SubSeq(toks, FirstPos(toks, "rbrace"), Len(toks))

\* Brace lists whose comments, if any, follow the last comma, and lists with
\* uneven indentation or two specifiers on a line.
LayoutPool ==
  { <<TSpec(<<"b">>), TComma, TSpec(<<"a">>)>>,
    <<TSp(1), TSpec(<<"b", "b">>), TComma, TSp(1), TSpec(<<"a">>), TComma, TSp(1)>>,
    <<TSp(1), TSpec(<<"b", "b">>), TComma, TSp(1), TSpec(<<"a">>), TComma, TSp(1), TBlock(<<"c">>), TSp(1)>>,
    <<TNl, TSp(2), TSpec(<<"b", "b">>), TComma, TNl, TSp(2), TSpec(<<"a">>), TComma, TNl>>,
    <<TNl, TSp(2), TSpec(<<"b", "b">>), TComma, TNl, TSp(2), TSpec(<<"a">>), TComma, TSp(1), TLine(<<"x">>), TNl>>,
    <<TNl, TSp(4), TSpec(<<"b", "b">>), TComma, TNl, TSp(2), TSpec(<<"a">>), TNl>>,
    <<TNl, TSp(2), TSpec(<<"b", "b">>), TComma, TSp(1), TSpec(<<"a">>), TNl>> }

InitLayout ==
  /\ text \in BlocksOf({NamedImport("value", <<>>, inner, <<"x">>) : inner \in LayoutPool}, MaxInnerEntries)
  /\ options \in InnerOptionSets
  /\ pass = 0
  /\ phase = "lint"
  /\ report = NotRun
  /\ history = <<>>

SpecLayout == InitLayout /\ [][Next]_vars

\* C24: a rewritten named-specifier list has a trailing comma exactly when
\* the original list had one and is on one line exactly when the original
\* brace content had no line break, otherwise one specifier per line with
\* the original indentation; the declaration's text up to `{` and from `}`
\* on is unchanged.
C24_LayoutPreserved ==
  phase = "fix" =>
    \A i \in 1..Len(Original) :
      LET node == Parse(text).nodes[i]
          emitted == Lex(Original[i].text)
      IN Original[i].changed =>
           /\ TrailingCommaIn(InnerOf(emitted)) <=> TrailingCommaIn(node.inner)
           /\ HasNl(InnerOf(emitted)) <=> HasNl(node.inner)
           /\ HasNl(node.inner) =>
                /\ OnePerLine(InnerOf(emitted))
                /\ IndentsOf(InnerOf(emitted)) \subseteq IndentsOf(node.inner)
           /\ UpToBrace(emitted) = UpToBrace(node.toks)
           /\ FromBrace(emitted) = FromBrace(node.toks)

\* ------------------------------------- import-sort: comments in the braces
\* The comments of a brace content, each with what it swallowed left out.
CommentsOf(inner) ==
  LET at == {q \in 1..Len(inner) : IsComment(inner[q])}
  IN BagOfAll(LAMBDA q : [inner[q] EXCEPT !.tail = <<>>], SetToBag(at))

\* The specifier a comment at q belongs to: the one it follows on its line,
\* otherwise the one it precedes (0: none).
TrailedSpecifier(inner, q) ==
  LET before == {p \in 1..(q - 1) : inner[p].k = "spec" /\ ~HasNl(SubSeq(inner, p, q))}
  IN IF before = {} THEN 0 ELSE CHOOSE p \in before : \A r \in before : r <= p

LedSpecifier(inner, q) ==
  LET after == {p \in (q + 1)..Len(inner) : inner[p].k = "spec"}
  IN IF after = {} THEN 0 ELSE CHOOSE p \in after : \A r \in after : p <= r

\* In the brace content out, comment c stands after specifier spec on its
\* line, with nothing but commas, spaces and comments between them.
EmittedTrailing(out, c, spec) ==
  \E p, q \in 1..Len(out) :
    /\ p < q
    /\ out[p] = spec
    /\ [out[q] EXCEPT !.tail = <<>>] = c
    /\ \A r \in (p + 1)..(q - 1) : out[r].k \in {"comma", "sp", "line", "block"}

\* In the brace content out, comment c stands before specifier spec, with
\* nothing but spaces, line breaks and comments between them.
EmittedLeading(out, c, spec) ==
  \E p, q \in 1..Len(out) :
    /\ q < p
    /\ out[p] = spec
    /\ [out[q] EXCEPT !.tail = <<>>] = c
    /\ \A r \in (q + 1)..(p - 1) : out[r].k \in {"nl", "sp", "line", "block"}

\* C25: every comment between the braces of a rewritten list belongs to one
\* specifier, as trailing if it follows the specifier on its source line and
\* otherwise as leading to the specifier it precedes, and is emitted once,
\* next to that specifier; no comment is dropped or duplicated.
C25_CommentsKept ==
  phase = "fix" =>
    \A i \in 1..Len(Original) :
      LET inner == Parse(text).nodes[i].inner
          out == InnerOf(Original[i].text)
      IN Original[i].changed =>
           /\ CommentsOf(out) = CommentsOf(inner)
           /\ \A q \in 1..Len(inner) :
                IsComment(inner[q]) =>
                  IF TrailedSpecifier(inner, q) # 0
                  THEN EmittedTrailing(out, inner[q], inner[TrailedSpecifier(inner, q)])
                  ELSE /\ LedSpecifier(inner, q) # 0
                       /\ EmittedLeading(out, inner[q], inner[LedSpecifier(inner, q)])

\* C29: in a rebuilt specifier block nothing is emitted after a line comment
\* on its output line: no specifier and no comma follows `//` before the
\* next line break.
C29_LineCommentEndsLine ==
  phase = "fix" =>
    \A i \in 1..Len(Original) :
      Original[i].changed =>
        \A q \in 1..Len(EmittedText(i)) :
          EmittedText(i)[q].k = "line" => EmittedText(i)[q].tail = <<>>

\* ------------------------------------- import-sort: the outer comparator
\* The comparator of the segment of position i, on entries j and k of the
\* block.
SegmentCompare(i, j, k) ==
  compareSegmentEntries(Original[j], Original[k], OuterConfig,
                        effectiveHandling(SegmentAt(Original, i), options.typeImportHandling),
                        Len(options.pathGroups) # 0)

\* C28: on the entries of a segment the outer comparator is a strict total
\* order: antisymmetric, and without entries a before b, b before c and c
\* before a.
C28_ComparatorOrder ==
  report.sorted =>
    \A i \in 1..Len(Original) :
      Original[i].isSortable =>
        LET in == {k \in 1..Len(Original) : InSegmentOf(Original, i, k)}
        IN /\ \A a, b \in in :
                /\ SegmentCompare(i, a, b) < 0 <=> SegmentCompare(i, b, a) > 0
                /\ SegmentCompare(i, a, b) = 0 => a = b
           /\ \A a, b, c \in in :
                ~(/\ SegmentCompare(i, a, b) < 0
                  /\ SegmentCompare(i, b, c) < 0
                  /\ SegmentCompare(i, c, a) < 0)

\* ------------------------- consistent-list-newline: the delimiter of a merge
\* The reports of the pass whose fix merges an element onto the line of
\* the element before it.
MergeReports ==
  {k \in 1..Len(report) :
     /\ report[k].messageId = "shouldNotWrap"
     /\ report[k].fix.range[2] = report[k].node.first - 1}

\* The element before the one report k is about.
Predecessor(k) ==
  LET items == NodeAt(text, report[k].root).items
      idx == CHOOSE i \in 2..Len(items) : items[i] = report[k].node
  IN items[idx - 1]

\* The text of the element ends with `,` or `;`.
EndsWithSeparator(item) == text[item.last].k = "comma" \/ text[item.last].n = 1

WithoutKind(s, kind) == SelectSeq(s, LAMBDA t : t.k # kind)

\* C26: the fix that merges an element onto its predecessor's line takes
\* the line breaks out of the gap between them and adds nothing, except
\* exactly one `,` between two members of a TSInterfaceDeclaration or
\* TSTypeLiteral of which the first does not end with `,` or `;`.
C26_DelimiterSynthesis ==
  phase = "fix" =>
    \A k \in MergeReports :
      LET fix == report[k].fix
          gap == SubSeq(text, fix.range[1] + 1, fix.range[2])
      IN IF report[k].name \in MemberTypes /\ ~EndsWithSeparator(Predecessor(k))
         THEN /\ WithoutKind(fix.text, "comma") = WithoutKind(WithoutKind(gap, "nl"), "comma")
              /\ Len(Positions(fix.text, "comma")) = Len(Positions(gap, "comma")) + 1
         ELSE fix.text = WithoutKind(gap, "nl")

\* ------------------------------------- consistent-chaining: what a fix changes
\* C30: the fixes change whitespace only: a shouldWrap fix inserts one line
\* break after the token before the `.`, and the range a shouldNotWrap fix
\* removes, from the end of that token to the `.`, holds nothing but
\* whitespace.
C30_WhitespaceOnly ==
  phase = "fix" =>
    \A k \in 1..Len(report.reports) :
      LET r == report.reports[k]
          tokenBefore == getTokenBefore(text, r.token)
      IN IF r.messageId = "shouldWrap"
         THEN r.fix = [range |-> <<tokenBefore, tokenBefore>>, text |-> <<TNl>>]
         ELSE /\ r.fix.range = <<tokenBefore, r.token - 1>>
              /\ r.fix.text = <<>>
              /\ AllWs(SubSeq(text, r.fix.range[1] + 1, r.fix.range[2]))

\* =================================================================
\* style-sort (rules/style-sort.ts)
\* =================================================================
\* A style sheet is a sequence of rules `s { declarations }`; a declaration
\* `prop: value` is one token, and an offset counts the tokens before it.
TDecl(prop) == Tok("decl", prop, 0)
TSemi == Tok("semi", <<>>, 0)

\* The declarations of the rule between the braces at lb and rb, as the
\* parser gives them: source.end is the `;` that ends the declaration, or
\* its last token when none does.  The parser's end offset points behind
\* that token or at it, depending on the parser's release.
declarationsOf(code, lb, rb, exclusiveEnd) ==
  LET ps == {p \in (lb + 1)..(rb - 1) : code[p].k = "decl"}
      next(p) == CHOOSE q \in (p + 1)..rb : ~IsWs(code[q]) /\ \A r \in (p + 1)..(q - 1) : IsWs(code[r])
      last(p) == IF code[next(p)].k = "semi" THEN next(p) ELSE p
  IN [ok |-> /\ \A p \in ps : code[next(p)].k \in {"semi", "rbrace"}
             /\ \A p \in (lb + 1)..(rb - 1) : code[p].k \in {"decl", "semi", "sp", "nl"},
      decls |-> [i \in 1..Cardinality(ps) |->
                   LET p == CHOOSE q \in ps : Cardinality({r \in ps : r < q}) = i - 1
                   IN [prop |-> code[p].v,
                       start |-> p - 1,
                       end |-> IF exclusiveEnd THEN last(p) ELSE last(p) - 1]]]

\* parseStyles: the rules of the sheet, each with its declarations.
parseStyles(code, exclusiveEnd) ==
  LET lbs == Positions(code, "lbrace")
      rbs == Positions(code, "rbrace")
      shape == /\ Len(lbs) = Len(rbs)
               /\ \A k \in 1..Len(lbs) : lbs[k] < rbs[k]
               /\ \A k \in 1..(Len(lbs) - 1) : rbs[k] < lbs[k + 1]
               /\ \A p \in 1..Len(code) :
                    (\A k \in 1..Len(lbs) : p < lbs[k] \/ p > rbs[k]) => code[p].k \in {"id", "sp", "nl"}
      rules == IF shape THEN [k \in 1..Len(lbs) |-> declarationsOf(code, lbs[k], rbs[k], exclusiveEnd)]
               ELSE <<>>
  IN [ok |-> shape /\ \A k \in 1..Len(rules) : rules[k].ok,
      groups |-> [k \in 1..Len(rules) |-> rules[k].decls]]

\* The while loop of getDeclarationRange.
RECURSIVE declarationEnd(_, _)
declarationEnd(code, end) ==
  IF end >= Len(code) THEN end
  ELSE IF code[end + 1].k = "semi" THEN end + 1
  ELSE IF code[end + 1].k = "nl" THEN end
  ELSE declarationEnd(code, end + 1)

getDeclarationRange(decl, code) == <<decl.start, declarationEnd(code, decl.end)>>

RECURSIVE getGroupLeadingStart(_, _)
getGroupLeadingStart(code, start) ==
  IF start > 0 /\ IsWs(code[start]) THEN getGroupLeadingStart(code, start - 1) ELSE start

\* orderMap.get(key) ?? Number.MAX_SAFE_INTEGER; the last entry of a name
\* is the one the map keeps, and what stands for MAX_SAFE_INTEGER is above
\* every index.
getOrderIndex(prop, groupedProperties) ==
  LET at == {i \in 1..Len(groupedProperties) : toLowerCase(groupedProperties[i]) = toLowerCase(prop)}
  IN IF at = {} THEN Len(groupedProperties) ELSE (CHOOSE i \in at : \A j \in at : j <= i) - 1

styleCompareEntries(a, b) ==
  IF a.orderIndex # b.orderIndex THEN a.orderIndex - b.orderIndex
  ELSE IF a.lengthScore # b.lengthScore THEN a.lengthScore - b.lengthScore
  ELSE IF compareStrings(a.alphaKey, b.alphaKey, TRUE) # 0 THEN compareStrings(a.alphaKey, b.alphaKey, TRUE)
  ELSE a.originalIndex - b.originalIndex

\* The entries of buildFix: the text of each declaration and what stands
\* between it and the end of the one before.
RECURSIVE styleEntries(_, _, _, _, _, _)
styleEntries(decls, ranges, code, groupedProperties, index, cursor) ==
  IF index > Len(decls) THEN <<>>
  ELSE <<[prop |-> decls[index].prop,
          text |-> SubSeq(code, ranges[index][1] + 1, ranges[index][2]),
          leading |-> SubSeq(code, cursor + 1, ranges[index][1]),
          range |-> ranges[index],
          orderIndex |-> getOrderIndex(decls[index].prop, groupedProperties),
          lengthScore |-> Len(decls[index].prop),
          alphaKey |-> toLowerCase(decls[index].prop),
          originalIndex |-> index - 1]>>
       \o styleEntries(decls, ranges, code, groupedProperties, index + 1, ranges[index][2])

styleSorted(entries) ==
  LET n == Len(entries)
      c == [i \in 1..n |-> [j \in 1..n |-> styleCompareEntries(entries[i], entries[j])]]
      order == ArraySort(c, n)
  IN [i \in 1..n |-> entries[order[i]]]

\* buildFix from `sorted` on: no fix when the order is kept.
styleFix(entries, sorted, blockStart, blockEnd, firstLeading) ==
  IF sorted = entries THEN <<>>
  ELSE LET diff == {i \in 1..Len(entries) : entries[i] # sorted[i]}
           diffIndex == CHOOSE i \in diff : \A j \in diff : i <= j
       IN <<[messageId |-> "styleSortDetailed",
             data |-> [expected |-> sorted[diffIndex].prop, actual |-> entries[diffIndex].prop],
             fix |-> [range |-> <<blockStart, blockEnd>>,
                      text |-> Flatten([i \in 1..Len(sorted) |->
                                 (IF i = 1 THEN firstLeading ELSE sorted[i].leading) \o sorted[i].text])]]>>

buildFix(decls, code, groupedProperties) ==
  LET ranges == [i \in 1..Len(decls) |-> getDeclarationRange(decls[i], code)]
      blockStart == getGroupLeadingStart(code, ranges[1][1])
      entries == styleEntries(decls, ranges, code, groupedProperties, 1, blockStart)
  IN styleFix(entries, styleSorted(entries), blockStart, ranges[Len(ranges)][2],
              SubSeq(code, blockStart + 1, ranges[1][1]))

\* collectFixes: one fix for every group of two or more declarations whose
\* order changes.
RECURSIVE collectFixes(_, _, _, _)
collectFixes(groups, code, groupedProperties, k) ==
  IF k > Len(groups) THEN <<>>
  ELSE (IF Len(groups[k]) <= 1 THEN <<>> ELSE buildFix(groups[k], code, groupedProperties))
       \o collectFixes(groups, code, groupedProperties, k + 1)

\* Program(): the reports of one run.
styleLint(code, opts) ==
  IF ~parseStyles(code, opts.exclusiveEnd).ok THEN <<>>
  ELSE collectFixes(parseStyles(code, opts.exclusiveEnd).groups, code, opts.groupedProperties, 1)

\* ------------------------------------------------------- style-sort: inputs
MaxDecls == 3

StyleProps == {<<"a">>, <<"b", "b">>, <<"c", "c", "c">>, <<"d", "d">>}

\* Sequences of 1..n declarations of different properties.
PropSeqs(n) ==
  UNION {{q \in [1..m -> StyleProps] : \A i, j \in 1..m : i # j => q[i] # q[j]} : m \in 1..n}

StyleLeadPool == {<<TSp(1)>>, <<TNl, TSp(2)>>}
StyleGapPool == {<<>>, <<TSp(1)>>, <<TNl>>, <<TNl, TSp(2)>>}
StyleEndPool == {<<>>, <<TSemi>>}
StyleTailPool == {<<>>, <<TSp(1)>>, <<TNl>>}

\* `s {<lead>p1;<gap>p2;<gap>p3<end><tail>}`
RuleOf(props, lead, gap, end, tail) ==
  <<TId(<<"s">>), TSp(1), TLBrace>> \o lead
    \o Flatten([i \in 1..Len(props) |->
                  <<TDecl(props[i])>> \o (IF i < Len(props) THEN <<TSemi>> \o gap ELSE end)])
    \o tail \o <<TRBrace>>

StyleFiles ==
  {RuleOf(props, lead, gap, end, tail) :
     props \in PropSeqs(MaxDecls), lead \in StyleLeadPool, gap \in StyleGapPool,
     end \in StyleEndPool, tail \in StyleTailPool}

StyleOptionSets ==
  [groupedProperties : {<<>>, <<<<"c", "c", "c">>>>, <<<<"d", "d">>, <<"b", "b">>>>},
   exclusiveEnd : BOOLEAN]

\* ------------------------------------------------ style-sort: state machine
InitStyle ==
  /\ text \in StyleFiles
  /\ options \in StyleOptionSets
  /\ pass = 0
  /\ phase = "lint"
  /\ report = <<>>
  /\ history = <<>>

StyleProgram ==
  /\ phase = "lint"
  /\ pass < MaxPasses
  /\ report' = styleLint(text, options)
  /\ pass' = pass + 1
  /\ phase' = IF report' = <<>> THEN "done" ELSE "fix"
  /\ UNCHANGED <<text, options, history>>

StyleApplyFixes ==
  /\ phase = "fix"
  /\ text' = applyFixes(text, report).text
  /\ history' = Append(history, text)
  /\ phase' = IF parseStyles(text', options.exclusiveEnd).ok THEN "lint" ELSE "broken"
  /\ UNCHANGED <<options, pass, report>>

NextStyle == StyleProgram \/ StyleApplyFixes
SpecStyle == InitStyle /\ [][NextStyle]_vars

\* ------------------------------------------------- style-sort: properties
\* The declarations of the sheet with their ranges, group by group.
StyleGroups == parseStyles(text, options.exclusiveEnd).groups
RangeOf(decl) == getDeclarationRange(decl, text)

\* The declaration is followed by a `;`.
Terminated(decl) == text[RangeOf(decl)[2]].k = "semi"

\* The first offset after the declaration at which a line break or a
\* character that is not whitespace stands.
TightEnd(decl) ==
  LET stops == {e \in decl.end..Len(text) : e = Len(text) \/ text[e + 1].k # "sp"}
  IN CHOOSE e \in stops : \A f \in stops : e <= f

\* C27: the range of a declaration that no `;` follows ends at the first
\* line break or the first character that is not whitespace after the
\* declaration; the ranges of the declarations of a group do not overlap
\* and hold neither the closing brace nor the next declaration (groups of
\* two or more declarations, for which the ranges are computed).
C27_DeclarationRange ==
  (pass > 0 /\ parseStyles(text, options.exclusiveEnd).ok) =>
    \A k \in {g \in 1..Len(StyleGroups) : Len(StyleGroups[g]) >= 2} :
      /\ \A i \in 1..Len(StyleGroups[k]) :
           /\ ~Terminated(StyleGroups[k][i]) =>
                RangeOf(StyleGroups[k][i])[2] = TightEnd(StyleGroups[k][i])
           /\ \A p \in (RangeOf(StyleGroups[k][i])[1] + 1)..RangeOf(StyleGroups[k][i])[2] :
                /\ text[p].k # "rbrace"
                /\ text[p].k = "decl" => p = StyleGroups[k][i].start + 1
      /\ \A i \in 1..(Len(StyleGroups[k]) - 1) :
           RangeOf(StyleGroups[k][i])[2] <= RangeOf(StyleGroups[k][i + 1])[1]

====
